---- MODULE Spec2Model ----
(***************************************************************************)
(* Model of the FTFC setup analyzer: the OHLC trade-outcome simulator      *)
(* (setup_analyzer/engine.py, _simulate_ohlc_path), the FTFC reversal      *)
(* detector (detect_ftfc_reversals) and the candle classifier              *)
(* (polygon_manager.py, _add_strat_labels).                                *)
(*                                                                         *)
(* Numbers.  Prices are integers.  stop_pct is held in percent (5 = 0.05). *)
(* An R-multiple x is held as the integer x * r_price (a price distance),  *)
(* so +1R with r_price = 5 is 5 and (107 - 100) / 5 = 1.4R is 7.  A mean   *)
(* is the exact fraction [num, den] with value num / den in R.             *)
(***************************************************************************)
EXTENDS Integers, Sequences, FiniteSets, TLC

VARIABLES
    entry_price,      \* _simulate_ohlc_path argument
    side_sign,        \* +1 long, -1 short
    risk,             \* RiskModel
    ohlc_bars,        \* the forward bars read so far by the for loop
    exits_R,          \* realized R per contract (None while open)
    trailing_active,
    max_price_seen,
    trailing_stop,
    result            \* None until the function returns

simVars == <<entry_price, side_sign, risk, ohlc_bars, exits_R,
             trailing_active, max_price_seen, trailing_stop, result>>

VARIABLES
    ohlc_data,           \* detect_ftfc_reversals: timeframe -> labelled series
    min_higher_tfs,
    tf_pos,              \* position of reversal_tf in TIMEFRAME_ORDER (i + 1)
    bar_idx,             \* position of the trigger bar in df_reversal (idx + 1)
    det_pc,
    labels,              \* locals of the last trigger bar processed
    reversal_time,
    pattern_match,
    reversal_direction,
    higher_tfs_aligned,
    higher_tf_trend,
    higher_bar,          \* timeframe -> row selected on it (0: none)
    reversals            \* the records appended so far

detVars == <<ohlc_data, min_higher_tfs, tf_pos, bar_idx, det_pc, labels,
             reversal_time, pattern_match, reversal_direction, higher_tfs_aligned,
             higher_tf_trend, higher_bar, reversals>>

VARIABLES
    df,                  \* the bar series given to the classifier
    df_columns,          \* the columns of the caller's frame object
    label                \* the label column it returns (<<>> before the call)

labVars == <<df, df_columns, label>>

VARIABLES
    fwd_bars,            \* summarize_setups: the forward bars of one event
    expectancy_ohlc,     \* its 'expectancy_ohlc' cell (None before the apply)
    expectancy_close     \* its 'expectancy_close' cell (None before the apply)

modeVars == <<fwd_bars, expectancy_ohlc, expectancy_close>>

VARIABLES
    events,              \* summarize_setups: the rows of df after simulation
    lookback_weeks,
    min_samples,
    agg_pc,
    grouped              \* the summary frame being built, one row per group

aggVars == <<events, lookback_weeks, min_samples, agg_pc, grouped>>

VARIABLES
    symbol_data,         \* analyze_historical_ftfc_reversals: timeframe -> series
    app_args,            \* its min_higher_tfs and lookahead arguments
    smaller_pos,         \* position of smaller_tf in available_tfs_with_labels
    app_pc,
    historical_reversals \* the records appended so far

appVars == <<symbol_data, app_args, smaller_pos, app_pc, historical_reversals>>

VARIABLES
    clock,            \* wall time, in seconds since 00:00 of the start day
    weekday,          \* datetime.weekday() of the start day (0 = Monday)
    check_interval,   \* Scheduler.check_interval, in seconds
    sched_pc,
    now,              \* run_forever's `now` of the current iteration
    upcoming_scans,   \* the list the for loop of the iteration walks
    scan_idx,         \* position of the for loop in upcoming_scans
    last_scan_times,  \* Scheduler.last_scan_times: scan_key -> time
    scans_run         \* the run_scan calls made so far

schedVars == <<clock, weekday, check_interval, sched_pc, now, upcoming_scans,
               scan_idx, last_scan_times, scans_run>>

VARIABLES
    all_ohlc_data,       \* detect_ftfc_reversals: (symbol, timeframe) -> series
    par_min_higher_tfs,  \* its min_higher_tfs argument
    units_left,          \* the (symbol, timeframe position) units not yet done
    all_reversals        \* the records appended so far, all symbols

parVars == <<all_ohlc_data, par_min_higher_tfs, units_left, all_reversals>>

vars == <<simVars, detVars, labVars, modeVars, aggVars, appVars, schedVars,
          parVars>>

(***************************************************************************)
(* Bounds and input sets                                                   *)
(***************************************************************************)
MaxBars == 3
MaxContracts == 4

\* Optional values are tuples: None is <<>>, a realized R x is <<x>>;
\* a result is None, <<"NaN">>, <<"IndexError">> (raised) or <<num, den>>
None == <<>>
Some(x) == <<x>>
NaN == <<"NaN">>
IndexError == <<"IndexError">>
Mean(n, d) == <<n, d>>
IsMean(x) == Len(x) = 2
\* -np.inf / np.inf: beyond every price of the model
NegInf == 0 - 1000000
PosInf == 1000000

\* price levels of the forward bars: symmetric about the entry 100; with
\* stop_pct 5 the stop/targets (95, 105, 110) fall between the levels, with
\* stop_pct 6 (94, 106, 112) they fall exactly on them
Levels == {88, 94, 100, 106, 112}
EntryPrices == {0, 100}
StopPcts == {5, 6}

Bars == {b \in [low : Levels, high : Levels, close : Levels] :
            b.low <= b.close /\ b.close <= b.high}

RiskModel == [stop_pct : StopPcts, contracts : 1..MaxContracts,
              scale_out_R : {<<1, 2>>}, trailing_after_R : {2},
              trailing_gap_R : {1}]

Max(a, b) == IF a >= b THEN a ELSE b
Min(a, b) == IF a <= b THEN a ELSE b

(***************************************************************************)
(* _simulate_ohlc_path                                                     *)
(***************************************************************************)
r_price(E, rk) == (E * rk.stop_pct) \div 100

stop_price(E, s, rk) == IF s > 0 THEN E - r_price(E, rk) ELSE E + r_price(E, rk)

t1_price(E, s, rk) ==
    IF s > 0 THEN E + rk.scale_out_R[1] * r_price(E, rk)
             ELSE E - rk.scale_out_R[1] * r_price(E, rk)

t2_price(E, s, rk) ==
    IF s > 0 THEN E + rk.scale_out_R[2] * r_price(E, rk)
             ELSE E - rk.scale_out_R[2] * r_price(E, rk)

RECURSIVE SumOpen(_, _)
\* sum of the entries of xs[1..n] that are not None
SumOpen(xs, n) ==
    IF n = 0 THEN 0
    ELSE (IF xs[n] = None THEN 0 ELSE xs[n][1]) + SumOpen(xs, n - 1)

CountSet(xs) == Cardinality({i \in DOMAIN xs : xs[i] # None})

\* np.nanmean([r for r in exits_R if r is not None]), as num / den in R
nanmean(xs, r) ==
    IF CountSet(xs) = 0 THEN NaN
    ELSE Mean(SumOpen(xs, Len(xs)), r * CountSet(xs))

\* the state of the locals before the first bar
SimStart(E, s, rk) ==
    [exits_R |-> [i \in 1..rk.contracts |-> None],
     trailing_active |-> FALSE,
     max_price_seen |-> E,
     trailing_stop |-> IF s > 0 THEN NegInf ELSE PosInf,
     ret |-> None]

\* mutant of StopHit: the stop must be crossed, not only touched
StopHitStrict(E, s, rk, bar) ==
    \/ s > 0 /\ bar.low < stop_price(E, s, rk)
    \/ s < 0 /\ bar.high > stop_price(E, s, rk)

\* the stop test of one bar
StopHit(E, s, rk, bar) ==
    \/ s > 0 /\ bar.low <= stop_price(E, s, rk)
    \/ s < 0 /\ bar.high >= stop_price(E, s, rk)

\* mutant of StopOut: every contract is set to -1R, exited or not
StopOutAll(st, r) ==
    LET ex == [i \in DOMAIN st.exits_R |-> Some(0 - r)]
    IN  [st EXCEPT !.exits_R = ex, !.ret = nanmean(ex, r)]

\* mutant of StopOut: the contracts exit but the function does not return
StopOutNoReturn(st, r) ==
    [st EXCEPT !.exits_R = [i \in DOMAIN st.exits_R |->
                   IF st.exits_R[i] = None THEN Some(0 - r) ELSE st.exits_R[i]]]

\* stop-out: every open contract exits at -1R and the function returns
StopOut(st, r) ==
    LET ex == [i \in DOMAIN st.exits_R |->
                  IF st.exits_R[i] = None THEN Some(0 - r) ELSE st.exits_R[i]]
    IN  [st EXCEPT !.exits_R = ex, !.ret = nanmean(ex, r)]

T1Hit(E, s, rk, bar) ==
    IF s > 0 THEN bar.high >= t1_price(E, s, rk) ELSE bar.low <= t1_price(E, s, rk)

\* mutant of T2Hit: a short must trade through T2, a long only touch it
T2HitShortStrict(E, s, rk, bar) ==
    IF s > 0 THEN bar.high >= t2_price(E, s, rk) ELSE bar.low < t2_price(E, s, rk)

T2Hit(E, s, rk, bar) ==
    IF s > 0 THEN bar.high >= t2_price(E, s, rk) ELSE bar.low <= t2_price(E, s, rk)

\* mutant of Targets: trailing is activated by the first target
TargetsTrailingAtT1(st, E, s, rk, bar) ==
    LET r == r_price(E, rk)
        hit1 == st.exits_R[1] = None /\ T1Hit(E, s, rk, bar)
        ex1 == IF hit1
               THEN [st.exits_R EXCEPT ![1] = Some(rk.scale_out_R[1] * r)]
               ELSE st.exits_R
        ta == st.trailing_active \/ hit1
    IN  IF rk.contracts < 2
        THEN [st EXCEPT !.exits_R = ex1, !.ret = IndexError]
        ELSE IF ex1[2] = None /\ T2Hit(E, s, rk, bar)
             THEN [st EXCEPT !.exits_R = [ex1 EXCEPT ![2] = Some(rk.scale_out_R[2] * r)],
                             !.trailing_active = TRUE]
             ELSE [st EXCEPT !.exits_R = ex1, !.trailing_active = ta]

\* the two target tests of one bar; exits_R[1] (Python index 1 = second
\* contract) is read on every bar, so one contract raises IndexError
Targets(st, E, s, rk, bar) ==
    LET r == r_price(E, rk)
        ex1 == IF st.exits_R[1] = None /\ T1Hit(E, s, rk, bar)
               THEN [st.exits_R EXCEPT ![1] = Some(rk.scale_out_R[1] * r)]
               ELSE st.exits_R
    IN  IF rk.contracts < 2
        THEN [st EXCEPT !.exits_R = ex1, !.ret = IndexError]
        ELSE IF ex1[2] = None /\ T2Hit(E, s, rk, bar)
             THEN [st EXCEPT !.exits_R = [ex1 EXCEPT ![2] = Some(rk.scale_out_R[2] * r)],
                             !.trailing_active = TRUE]
             ELSE [st EXCEPT !.exits_R = ex1]

\* mutant of Trailing: the stop follows each bar's own favorable extreme
TrailingFollowsBar(st, E, s, rk, bar) ==
    LET r == r_price(E, rk)
        n == rk.contracts
    IN  IF st.ret = None /\ st.trailing_active /\ st.exits_R[n] = None
        THEN LET mp == IF s > 0 THEN bar.high ELSE bar.low
                 ts == IF s > 0 THEN mp - rk.trailing_gap_R * r
                                ELSE mp + rk.trailing_gap_R * r
                 hit == IF s > 0 THEN bar.low <= ts ELSE bar.high >= ts
                 ex == [st.exits_R EXCEPT ![n] = Some(IF s > 0 THEN ts - E ELSE E - ts)]
             IN  IF hit
                 THEN [st EXCEPT !.max_price_seen = mp, !.trailing_stop = ts,
                                 !.exits_R = ex, !.ret = nanmean(ex, r)]
                 ELSE [st EXCEPT !.max_price_seen = mp, !.trailing_stop = ts]
        ELSE st

\* mutant of Trailing: the favorable extreme is never updated
TrailingNoMaxUpdate(st, E, s, rk, bar) ==
    LET r == r_price(E, rk)
        n == rk.contracts
    IN  IF st.ret = None /\ st.trailing_active /\ st.exits_R[n] = None
        THEN LET mp == st.max_price_seen
                 ts == IF s > 0 THEN mp - rk.trailing_gap_R * r
                                ELSE mp + rk.trailing_gap_R * r
                 hit == IF s > 0 THEN bar.low <= ts ELSE bar.high >= ts
                 ex == [st.exits_R EXCEPT ![n] = Some(IF s > 0 THEN ts - E ELSE E - ts)]
             IN  IF hit
                 THEN [st EXCEPT !.trailing_stop = ts,
                                 !.exits_R = ex, !.ret = nanmean(ex, r)]
                 ELSE [st EXCEPT !.trailing_stop = ts]
        ELSE st

\* trailing stop of the last contract
Trailing(st, E, s, rk, bar) ==
    LET r == r_price(E, rk)
        n == rk.contracts
    IN  IF st.ret = None /\ st.trailing_active /\ st.exits_R[n] = None
        THEN LET mp == IF s > 0 THEN Max(st.max_price_seen, bar.high)
                                ELSE Min(st.max_price_seen, bar.low)
                 ts == IF s > 0 THEN mp - rk.trailing_gap_R * r
                                ELSE mp + rk.trailing_gap_R * r
                 hit == IF s > 0 THEN bar.low <= ts ELSE bar.high >= ts
                 ex == [st.exits_R EXCEPT ![n] = Some(IF s > 0 THEN ts - E ELSE E - ts)]
             IN  IF hit
                 THEN [st EXCEPT !.max_price_seen = mp, !.trailing_stop = ts,
                                 !.exits_R = ex, !.ret = nanmean(ex, r)]
                 ELSE [st EXCEPT !.max_price_seen = mp, !.trailing_stop = ts]
        ELSE st

\* mutant of BarStep: no stop test
BarStepNoStop(st, E, s, rk, bar) ==
    Trailing(Targets(st, E, s, rk, bar), E, s, rk, bar)

\* mutant of BarStep: the trailing stop is handled before the targets
BarStepTrailingFirst(st, E, s, rk, bar) ==
    IF StopHit(E, s, rk, bar)
    THEN StopOut(st, r_price(E, rk))
    ELSE LET tr == Trailing(st, E, s, rk, bar)
         IN  IF tr.ret # None THEN tr ELSE Targets(tr, E, s, rk, bar)

\* mutant of BarStep: the targets are tested before the stop
BarStepTargetsFirst(st, E, s, rk, bar) ==
    IF StopHit(E, s, rk, bar)
    THEN StopOut([Targets(st, E, s, rk, bar) EXCEPT !.ret = None], r_price(E, rk))
    ELSE Trailing(Targets(st, E, s, rk, bar), E, s, rk, bar)

\* one iteration of `for bar in ohlc_bars`
BarStep(st, E, s, rk, bar) ==
    IF StopHit(E, s, rk, bar)
    THEN StopOut(st, r_price(E, rk))
    ELSE Trailing(Targets(st, E, s, rk, bar), E, s, rk, bar)

\* after the loop: the open contracts exit at the last close
EndOfWindow(st, E, s, rk, last_close) ==
    LET r == r_price(E, rk)
        exit_r == IF s > 0 THEN last_close - E ELSE E - last_close
        ex == [i \in DOMAIN st.exits_R |->
                  IF st.exits_R[i] = None THEN Some(exit_r) ELSE st.exits_R[i]]
    IN  [st EXCEPT !.exits_R = ex, !.ret = nanmean(ex, r)]

RECURSIVE RunBars(_, _, _, _, _, _)
\* the for loop over bars[k..]: it stops at the first return
RunBars(st, E, s, rk, bars, k) ==
    IF k > Len(bars) \/ st.ret # None THEN st
    ELSE RunBars(BarStep(st, E, s, rk, bars[k]), E, s, rk, bars, k + 1)

\* _simulate_ohlc_path as a function of its arguments
SimulateOhlcPath(E, bars, s, rk) ==
    IF E <= 0 \/ bars = <<>> THEN NaN
    ELSE LET st == RunBars(SimStart(E, s, rk), E, s, rk, bars, 1)
         IN  IF st.ret # None THEN st.ret
             ELSE EndOfWindow(st, E, s, rk, bars[Len(bars)].close).ret

\* the locals as one record, and their assignment back to the variables
SimLocals ==
    [exits_R |-> exits_R, trailing_active |-> trailing_active,
     max_price_seen |-> max_price_seen, trailing_stop |-> trailing_stop,
     ret |-> result]

SimAssign(st) ==
    /\ exits_R' = st.exits_R
    /\ trailing_active' = st.trailing_active
    /\ max_price_seen' = st.max_price_seen
    /\ trailing_stop' = st.trailing_stop
    /\ result' = st.ret

SimVarsInit ==
    /\ entry_price \in EntryPrices
    /\ side_sign \in {1, -1}
    /\ risk \in RiskModel
    /\ ohlc_bars = <<>>
    /\ exits_R = SimStart(entry_price, side_sign, risk).exits_R
    /\ trailing_active = FALSE
    /\ max_price_seen = entry_price
    /\ trailing_stop = SimStart(entry_price, side_sign, risk).trailing_stop
    /\ result = None

\* line 182: a degenerate entry price or an empty window returns NaN
SimDegenerate ==
    /\ result = None
    /\ ohlc_bars = <<>>
    /\ result' = NaN
    /\ UNCHANGED <<entry_price, side_sign, risk, ohlc_bars, exits_R,
                   trailing_active, max_price_seen, trailing_stop>>
    /\ UNCHANGED <<detVars, labVars, modeVars, aggVars, appVars, schedVars, parVars>>

\* the loop body on the next bar of the window
SimBar ==
    /\ result = None
    /\ entry_price > 0
    /\ Len(ohlc_bars) < MaxBars
    /\ \E bar \in Bars :
          /\ ohlc_bars' = Append(ohlc_bars, bar)
          /\ SimAssign(BarStep(SimLocals, entry_price, side_sign, risk, bar))
    /\ UNCHANGED <<entry_price, side_sign, risk>>
    /\ UNCHANGED <<detVars, labVars, modeVars, aggVars, appVars, schedVars, parVars>>

\* the window is exhausted
SimEnd ==
    /\ result = None
    /\ Len(ohlc_bars) >= 1
    /\ SimAssign(EndOfWindow(SimLocals, entry_price, side_sign, risk,
                             ohlc_bars[Len(ohlc_bars)].close))
    /\ UNCHANGED <<entry_price, side_sign, risk, ohlc_bars>>
    /\ UNCHANGED <<detVars, labVars, modeVars, aggVars, appVars, schedVars, parVars>>

(***************************************************************************)
(* detect_ftfc_reversals (one symbol)                                      *)
(***************************************************************************)
TIMEFRAME_ORDER ==
    <<"30min", "1hour", "2hour", "4hour", "daily", "weekly", "monthly">>

REVERSAL_PATTERNS ==
    << [key |-> <<"3", "1", "2u">>,  name |-> "3-1-2u"],
       [key |-> <<"3", "1", "2d">>,  name |-> "3-1-2d"],
       [key |-> <<"2u", "1", "2d">>, name |-> "2u-1-2d"],
       [key |-> <<"2d", "1", "2u">>, name |-> "2d-1-2u"],
       [key |-> <<"2u", "2d">>,      name |-> "2u-2d"],
       [key |-> <<"2d", "2u">>,      name |-> "2d-2u"] >>

NoMatch == "None"
NoTrend == "None"

\* the characters of a pattern name (for Python's `'u' in pattern_match`)
NameChars(name) ==
    CASE name = "3-1-2u"  -> {"3", "-", "1", "2", "u"}
      [] name = "3-1-2d"  -> {"3", "-", "1", "2", "d"}
      [] name = "2u-1-2d" -> {"2", "u", "-", "1", "d"}
      [] name = "2d-1-2u" -> {"2", "d", "-", "1", "u"}
      [] name = "2u-2d"   -> {"2", "u", "-", "d"}
      [] name = "2d-2u"   -> {"2", "d", "-", "u"}
      [] OTHER            -> {}

\* lines 74-81: the 3 labels ending at row idx against the pattern table
WindowLabels(series, idx) ==
    <<series[idx - 2].label, series[idx - 1].label, series[idx].label>>

\* mutant of KeyMatches: only the last label is compared
KeyMatchesLastLabel(lbls, key) == lbls[Len(lbls)] = key[Len(key)]

KeyMatches(lbls, key) == Len(lbls) = Len(key) /\ lbls = key

PatternMatch(lbls) ==
    LET hits == {k \in DOMAIN REVERSAL_PATTERNS :
                    KeyMatches(lbls, REVERSAL_PATTERNS[k].key)}
    IN  IF hits = {} THEN NoMatch
        ELSE REVERSAL_PATTERNS[CHOOSE k \in hits : \A m \in hits : k <= m].name

\* lines 91-96
ReversalDirection(name) ==
    IF "u" \in NameChars(name) THEN "2u"
    ELSE IF "d" \in NameChars(name) THEN "2d"
    ELSE NoTrend

\* mutant of HigherBarBefore: the first row at or before T
HigherBarEarliest(series, T) ==
    LET before == {j \in DOMAIN series : series[j].time <= T}
    IN  IF before = {} THEN 0
        ELSE CHOOSE j \in before : \A m \in before : j <= m

\* mutant of HigherBarBefore: the last row of the whole series
HigherBarLast(series, T) == Len(series)

\* lines 112-116: the last row of df_higher[df_higher.index <= reversal_time]
\* (0 when that frame is empty)
HigherBarBefore(series, T) ==
    LET before == {j \in DOMAIN series : series[j].time <= T}
    IN  IF before = {} THEN 0
        ELSE CHOOSE j \in before : \A m \in before : m <= j

\* mutant of HigherTfs: TIMEFRAME_ORDER[i:]
HigherTfsFromTrigger(pos) == {k \in DOMAIN TIMEFRAME_ORDER : k >= pos}

\* the timeframes the confluence loop walks: TIMEFRAME_ORDER[i+1:]
HigherTfs(pos) == {k \in DOMAIN TIMEFRAME_ORDER : k > pos}

\* line 102-108, 113: the loop body is skipped for this timeframe
HigherSkipped(data, k, T) ==
    IF TIMEFRAME_ORDER[k] \notin DOMAIN data THEN TRUE
    ELSE IF data[TIMEFRAME_ORDER[k]] = <<>> THEN TRUE
    ELSE HigherBarBefore(data[TIMEFRAME_ORDER[k]], T) = 0

\* lines 117-127: does this higher timeframe add to higher_tfs_aligned
HigherCounts(data, k, T, dir) ==
    /\ ~HigherSkipped(data, k, T)
    /\ LET s == data[TIMEFRAME_ORDER[k]]
           higher_label == s[HigherBarBefore(s, T)].label
       IN  \/ dir = "2u" /\ higher_label = "2u"
           \/ dir = "2d" /\ higher_label = "2d"

RECURSIVE ConfluenceLoop(_, _, _, _, _)
\* lines 99-127: walk the timeframes at positions k..7, accumulating
\* [aligned, trend]
ConfluenceLoop(data, k, T, dir, acc) ==
    IF k > Len(TIMEFRAME_ORDER) THEN acc
    ELSE ConfluenceLoop(data, k + 1, T, dir,
            IF k \in HigherTfs(acc.pos) /\ HigherCounts(data, k, T, dir)
            THEN [acc EXCEPT !.aligned = @ + 1,
                             !.trend = IF @ = NoTrend THEN dir ELSE @]
            ELSE acc)

Confluence(data, pos, T, dir) ==
    ConfluenceLoop(data, 1, T, dir,
                   [pos |-> pos, aligned |-> 0, trend |-> NoTrend])

\* mutant of KeepReversal: `<=` for `<`
KeepReversalStrict(aligned, minimum) == ~(aligned <= minimum)

\* line 130
KeepReversal(aligned, minimum) == ~(aligned < minimum)

\* higher_bar of every timeframe the loop walks (0: the body was skipped)
SelectedBars(data, pos, T) ==
    [tf \in {TIMEFRAME_ORDER[k] : k \in HigherTfs(pos)} \cap DOMAIN data |->
        IF data[tf] = <<>> THEN 0 ELSE HigherBarBefore(data[tf], T)]

ReversalRecord(tf, bar, name, aligned, trend) ==
    [Timeframe |-> tf, ReversalTime |-> bar.time, Pattern |-> name,
     EntryPrice |-> bar.close, HigherTFTrend |-> trend, FTFCCount |-> aligned]

\* --- inputs -------------------------------------------------------------
MIN_HIGHER_TFS_FOR_FTFC == 3
MinHigherTfs == {0, MIN_HIGHER_TFS_FOR_FTFC}

\* a labelled bar of a series; the first bar of every series is N/A
LBar(t, l) == [time |-> t, label |-> l, close |-> 100 + t]

\* the trigger timeframe: 4 bars at times 1..4
TriggerSeries ==
    {<<LBar(1, "N/A"), LBar(2, a), LBar(3, b), LBar(4, c)>> :
        a \in {"3", "2u", "2d"}, b \in {"1", "2u", "2d"}, c \in {"2u", "2d"}}

\* a higher timeframe: nothing, only a bar after time 4, a bar exactly at
\* time 4, or a bar at time 2 followed by one at time 5
HigherSeries ==
    {<<LBar(5, "N/A")>>, <<LBar(0, "N/A"), LBar(4, "1")>>}
    \cup {<<LBar(0, "N/A"), LBar(2, x), LBar(5, y)>> :
             x \in {"2u", "2d"}, y \in {"2u", "2d"}}

LowerSeries == {<<LBar(0, "N/A"), LBar(3, "2u"), LBar(4, "2d")>>}

TriggerTf == "4hour"
LowerTf == "2hour"
UpperTfs == {"daily", "weekly", "monthly"}

\* a mapping timeframe -> series: a lower timeframe (maybe), the trigger
\* timeframe and any subset of the three timeframes above it
OhlcInputs ==
    UNION { UNION { { [tf \in (present \cup low \cup {TriggerTf}) |->
                         IF tf = TriggerTf THEN trig
                         ELSE IF tf = LowerTf THEN CHOOSE s \in LowerSeries : TRUE
                         ELSE hi[tf]] :
                      trig \in TriggerSeries, hi \in [present -> HigherSeries] } :
                    low \in {{}, {LowerTf}} } :
            present \in SUBSET UpperTfs }

DetIdle ==
    /\ ohlc_data = <<>>
    /\ min_higher_tfs = 0
    /\ tf_pos = 0
    /\ bar_idx = 0
    /\ det_pc = "idle"
    /\ labels = <<>>
    /\ reversal_time = 0
    /\ pattern_match = NoMatch
    /\ reversal_direction = NoTrend
    /\ higher_tfs_aligned = 0
    /\ higher_tf_trend = NoTrend
    /\ higher_bar = <<>>
    /\ reversals = <<>>

DetVarsInit ==
    /\ ohlc_data \in OhlcInputs
    /\ min_higher_tfs \in MinHigherTfs
    /\ tf_pos = 1
    /\ bar_idx = 0
    /\ det_pc = "tf"
    /\ labels = <<>>
    /\ reversal_time = 0
    /\ pattern_match = NoMatch
    /\ reversal_direction = NoTrend
    /\ higher_tfs_aligned = 0
    /\ higher_tf_trend = NoTrend
    /\ higher_bar = <<>>
    /\ reversals = <<>>

reversal_tf == TIMEFRAME_ORDER[tf_pos]

\* lines 56-66: the timeframe has no usable series
TfSkipped(data, tf) ==
    IF tf \notin DOMAIN data THEN TRUE
    ELSE IF data[tf] = <<>> THEN TRUE
    ELSE Len(data[tf]) < 3

\* `continue` on a timeframe without a usable series
DetSkipTf ==
    /\ det_pc = "tf"
    /\ tf_pos < Len(TIMEFRAME_ORDER)
    /\ TfSkipped(ohlc_data, reversal_tf)
    /\ tf_pos' = tf_pos + 1
    /\ UNCHANGED <<ohlc_data, min_higher_tfs, bar_idx, det_pc, labels,
                   reversal_time, pattern_match, reversal_direction, higher_tfs_aligned,
                   higher_tf_trend, higher_bar, reversals>>
    /\ UNCHANGED <<simVars, labVars, modeVars, aggVars, appVars, schedVars, parVars>>

\* enter `for idx in range(2, len(df_reversal))`
DetEnterTf ==
    /\ det_pc = "tf"
    /\ tf_pos < Len(TIMEFRAME_ORDER)
    /\ ~TfSkipped(ohlc_data, reversal_tf)
    /\ det_pc' = "bars"
    /\ bar_idx' = 3
    /\ UNCHANGED <<ohlc_data, min_higher_tfs, tf_pos, labels,
                   reversal_time, pattern_match, reversal_direction, higher_tfs_aligned,
                   higher_tf_trend, higher_bar, reversals>>
    /\ UNCHANGED <<simVars, labVars, modeVars, aggVars, appVars, schedVars, parVars>>

\* one iteration of the idx loop (lines 70-156)
DetBar ==
    /\ det_pc = "bars"
    /\ bar_idx <= Len(ohlc_data[reversal_tf])
    /\ LET series == ohlc_data[reversal_tf]
           bar == series[bar_idx]
           lbls == WindowLabels(series, bar_idx)
           name == PatternMatch(lbls)
           dir == IF name = NoMatch THEN NoTrend ELSE ReversalDirection(name)
           conf == Confluence(ohlc_data, tf_pos, bar.time, dir)
       IN  /\ labels' = lbls
           /\ reversal_time' = bar.time
           /\ pattern_match' = name
           /\ reversal_direction' = dir
           /\ IF name = NoMatch \/ dir = NoTrend
              THEN /\ higher_tfs_aligned' = 0
                   /\ higher_tf_trend' = NoTrend
                   /\ higher_bar' = <<>>
                   /\ reversals' = reversals
              ELSE /\ higher_tfs_aligned' = conf.aligned
                   /\ higher_tf_trend' = conf.trend
                   /\ higher_bar' = SelectedBars(ohlc_data, tf_pos, bar.time)
                   /\ reversals' =
                        IF KeepReversal(conf.aligned, min_higher_tfs)
                        THEN Append(reversals,
                                ReversalRecord(reversal_tf, bar, name,
                                               conf.aligned, conf.trend))
                        ELSE reversals
    /\ bar_idx' = bar_idx + 1
    /\ UNCHANGED <<ohlc_data, min_higher_tfs, tf_pos, det_pc>>
    /\ UNCHANGED <<simVars, labVars, modeVars, aggVars, appVars, schedVars, parVars>>

\* the idx loop is exhausted: next timeframe
DetTfDone ==
    /\ det_pc = "bars"
    /\ bar_idx > Len(ohlc_data[reversal_tf])
    /\ det_pc' = "tf"
    /\ tf_pos' = tf_pos + 1
    /\ UNCHANGED <<ohlc_data, min_higher_tfs, bar_idx, labels,
                   reversal_time, pattern_match, reversal_direction, higher_tfs_aligned,
                   higher_tf_trend, higher_bar, reversals>>
    /\ UNCHANGED <<simVars, labVars, modeVars, aggVars, appVars, schedVars, parVars>>

\* line 158: TIMEFRAME_ORDER[:-1] is exhausted
DetReturn ==
    /\ det_pc = "tf"
    /\ tf_pos = Len(TIMEFRAME_ORDER)
    /\ det_pc' = "done"
    /\ UNCHANGED <<ohlc_data, min_higher_tfs, tf_pos, bar_idx, labels,
                   reversal_time, pattern_match, reversal_direction, higher_tfs_aligned,
                   higher_tf_trend, higher_bar, reversals>>
    /\ UNCHANGED <<simVars, labVars, modeVars, aggVars, appVars, schedVars, parVars>>

(***************************************************************************)
(* The candle classifier: PolygonDataManager._add_strat_labels and         *)
(* strat_app.label_candlesticks                                            *)
(***************************************************************************)
MaxSeries == 3
MaxPrice == 3

Candles == {c \in [high : 1..MaxPrice, low : 1..MaxPrice] : c.high >= c.low}

RECURSIVE SeqsUpTo(_, _)
\* the sequences over S of length 1..n
SeqsUpTo(S, n) ==
    IF n = 0 THEN {}
    ELSE SeqsUpTo(S, n - 1) \cup [1..n -> S]

\* the four vectorised conditions on row i; a comparison with the NaN that
\* shift(1) leaves in row 1 is False
HasPrev(i) == i > 1
IsOutside(d, i) == HasPrev(i) /\ d[i].high > d[i-1].high /\ d[i].low < d[i-1].low
\* mutant of IsInside: strict comparisons
IsInsideStrict(d, i) == HasPrev(i) /\ d[i].high < d[i-1].high /\ d[i].low > d[i-1].low
IsInside(d, i) == HasPrev(i) /\ d[i].high <= d[i-1].high /\ d[i].low >= d[i-1].low
\* mutant of IsUp: an equal high also counts as up
IsUpOrEqual(d, i) == HasPrev(i) /\ d[i].high >= d[i-1].high /\ d[i].low >= d[i-1].low
IsUp(d, i) == HasPrev(i) /\ d[i].high > d[i-1].high /\ d[i].low >= d[i-1].low
\* mutant of IsDown: a strict comparison of the highs
IsDownStrict(d, i) == HasPrev(i) /\ d[i].high < d[i-1].high /\ d[i].low < d[i-1].low
IsDown(d, i) == HasPrev(i) /\ d[i].high <= d[i-1].high /\ d[i].low < d[i-1].low

\* np.select(conditions, choices, default='N/A'): the first true condition
NpSelect(d, i) ==
    IF IsOutside(d, i) THEN "3"
    ELSE IF IsInside(d, i) THEN "1"
    ELSE IF IsUp(d, i) THEN "2u"
    ELSE IF IsDown(d, i) THEN "2d"
    ELSE "N/A"

\* polygon_manager.py lines 89-105
StratLabels(d) == [i \in DOMAIN d |-> IF i = 1 THEN "N/A" ELSE NpSelect(d, i)]

\* strat_app.py lines 131-135: four masked assignments, the last one wins
MaskedAssign(d, i) ==
    IF IsOutside(d, i) THEN "3"
    ELSE IF IsDown(d, i) THEN "2d"
    ELSE IF IsUp(d, i) THEN "2u"
    ELSE IF IsInside(d, i) THEN "1"
    ELSE "N/A"

\* strat_app.py lines 126-137
CandlestickLabels(d) ==
    [i \in DOMAIN d |-> IF i = 1 THEN "N/A" ELSE MaskedAssign(d, i)]

\* the columns of a frame handed to the classifier
OhlcColumns == {"open", "high", "low", "close"}

LabIdle ==
    /\ df = <<>>
    /\ df_columns = OhlcColumns
    /\ label = <<>>

LabVarsInit ==
    /\ df \in SeqsUpTo(Candles, MaxSeries)
    /\ df_columns = OhlcColumns
    /\ label = <<>>

AddStratLabels ==
    /\ label = <<>>
    /\ df # <<>>
    /\ label' = [by |-> "_add_strat_labels", col |-> StratLabels(df)]
    \* lines 89, 90, 100: item assignments on the argument itself; only the
    \* frame returned by drop() (line 105) is a new object
    /\ df_columns' = df_columns \cup {"prev_high", "prev_low", "label"}
    /\ UNCHANGED df
    /\ UNCHANGED <<simVars, detVars, modeVars, aggVars, appVars, schedVars, parVars>>

LabelCandlesticks ==
    /\ label = <<>>
    /\ df # <<>>
    /\ label' = [by |-> "label_candlesticks", col |-> CandlestickLabels(df)]
    \* lines 130-136: the index is increasing, so no sorted copy is made and
    \* the label column is assigned on the argument, which is also returned
    /\ df_columns' = df_columns \cup {"label"}
    /\ UNCHANGED df
    /\ UNCHANGED <<simVars, detVars, modeVars, aggVars, appVars, schedVars, parVars>>


(***************************************************************************)
(* summarize_setups, simulation of one event in either mode (lines 366-395) *)
(* and _simulate_close_path                                                *)
(***************************************************************************)
\* lines 244-253: only the last close is looked at
SimulateClosePath(entry, closes, s, rk) ==
    IF entry <= 0 THEN NaN
    ELSE LET r == r_price(entry, rk)
             stop == IF s > 0 THEN entry - r ELSE entry + r
             last_close == IF closes # <<>> THEN closes[Len(closes)] ELSE entry
             exit_r == IF s > 0 THEN last_close - entry ELSE entry - last_close
         IN  IF (s > 0 /\ last_close <= stop) \/ (s < 0 /\ last_close >= stop)
             THEN Mean(0 - r, r)
             ELSE Mean(exit_r, r)

\* strat_app.py line 224: the Fwd_k_PercMoveFromEntry column of a close
PercMove(entry, future_close) == ((future_close - entry) * 100) \div entry

\* lines 382-389: the closes rebuilt from the Fwd_k_PercMoveFromEntry columns
path_closes(entry, bars) ==
    IF entry <= 0 THEN <<>>
    ELSE [k \in DOMAIN bars |->
             entry + (entry * PercMove(entry, bars[k].close)) \div 100]

\* forward bars with high = low = close
FlatBars == {b \in Bars : b.high = b.low}
FwdWindows == {<<>>} \cup SeqsUpTo(FlatBars, MaxBars)

ModeIdle ==
    /\ fwd_bars = <<>>
    /\ expectancy_ohlc = NaN
    /\ expectancy_close = NaN

ModeVarsInit ==
    /\ entry_price \in EntryPrices
    /\ side_sign \in {1, -1}
    /\ risk \in RiskModel
    /\ ohlc_bars = <<>>
    /\ exits_R = <<>>
    /\ trailing_active = FALSE
    /\ max_price_seen = 0
    /\ trailing_stop = 0
    /\ result = NaN
    /\ fwd_bars \in FwdWindows
    /\ expectancy_ohlc = None
    /\ expectancy_close = None

\* lines 369-377: the row's cell under an ohlc_cache
ApplyOhlcPath ==
    /\ expectancy_ohlc = None
    /\ expectancy_ohlc' = SimulateOhlcPath(entry_price, fwd_bars, side_sign, risk)
    /\ UNCHANGED <<fwd_bars, expectancy_close>>
    /\ UNCHANGED <<simVars, detVars, labVars, aggVars, appVars, schedVars, parVars>>

\* lines 390-393: the row's cell without an ohlc_cache
ApplyClosePath ==
    /\ expectancy_close = None
    /\ expectancy_close' =
          SimulateClosePath(entry_price, path_closes(entry_price, fwd_bars),
                            side_sign, risk)
    /\ UNCHANGED <<fwd_bars, expectancy_ohlc>>
    /\ UNCHANGED <<simVars, detVars, labVars, aggVars, appVars, schedVars, parVars>>

(***************************************************************************)
(* summarize_setups, aggregation (lines 356-362 and 397-449).  A row of df *)
(* is [key, ReversalTime, Expectancy_R]: key is the rank of its group_by   *)
(* values in their sort order, ReversalTime is in weeks, Expectancy_R is   *)
(* the row's simulated result, NaN or the fraction [x, 1].                 *)
(***************************************************************************)
MaxEvents == 3

Groups == {1, 2}
EventTimes == {1, 4}
Results == {NaN, Mean(0 - 1, 1), Mean(1, 1), Mean(2, 1)}
LookbackWeeks == {2, 3}
MinSamples == {1, 2}

EventRows == [key : Groups, ReversalTime : EventTimes, Expectancy_R : Results]

\* the rows of one group
RowsOf(rows, g) == {i \in DOMAIN rows : rows[i].key = g}

\* the rows of one group whose result is a number
DefinedOf(rows, g) == {i \in RowsOf(rows, g) : IsMean(rows[i].Expectancy_R)}

\* line 397: (df['_Expectancy_R'] > 0).astype(int); NaN > 0 is False
Win(r) == IF IsMean(r) THEN (IF r[1] > 0 THEN 1 ELSE 0) ELSE 0

RECURSIVE SumExpectancy(_, _, _)
\* the sum of the group's numeric results among rows[1..n]
SumExpectancy(rows, n, g) ==
    IF n = 0 THEN 0
    ELSE (IF rows[n].key = g /\ IsMean(rows[n].Expectancy_R)
          THEN rows[n].Expectancy_R[1] ELSE 0)
         + SumExpectancy(rows, n - 1, g)

\* mutant of GroupMean: 'sum' for 'mean'
GroupSum(rows, g) ==
    IF DefinedOf(rows, g) = {} THEN NaN
    ELSE Mean(SumExpectancy(rows, Len(rows), g), 1)

\* '_Expectancy_R': 'mean' (NaN rows are skipped; NaN when none is left)
GroupMean(rows, g) ==
    IF DefinedOf(rows, g) = {} THEN NaN
    ELSE Mean(SumExpectancy(rows, Len(rows), g), Cardinality(DefinedOf(rows, g)))

\* '_Expectancy_R': 'count' (the non-NaN cells)
GroupCount(rows, g) == Cardinality(DefinedOf(rows, g))

\* '_Win': 'mean' (over every row of the group)
GroupWinMean(rows, g) ==
    Mean(Cardinality({i \in RowsOf(rows, g) : Win(rows[i].Expectancy_R) = 1}),
         Cardinality(RowsOf(rows, g)))

\* lines 358-360: the rows at or after latest - lookback_weeks
Latest(rows) ==
    CHOOSE t \in {rows[i].ReversalTime : i \in DOMAIN rows} :
        \A i \in DOMAIN rows : rows[i].ReversalTime <= t

Recent(rows, lw) ==
    {i \in DOMAIN rows : rows[i].ReversalTime >= Latest(rows) - lw}

\* lines 438-442: len(x) / max(lookback_weeks, 1) over the recent rows of the
\* group, left-joined: NaN for a group without a recent row
Frequency(rows, lw, g) ==
    LET n == Cardinality(Recent(rows, lw) \cap RowsOf(rows, g))
    IN  IF n = 0 THEN NaN ELSE Mean(n, Max(lw, 1))

GroupRow(rows, lw, g) ==
    [key |-> g,
     expectancy_R |-> GroupMean(rows, g),
     sample_count |-> GroupCount(rows, g),
     win_rate |-> GroupWinMean(rows, g),
     frequency_per_week |-> Frequency(rows, lw, g)]

GroupKeys(rows) == {rows[i].key : i \in DOMAIN rows}

RECURSIVE GroupByAgg(_, _, _)
\* line 412: groupby(...).agg(...), one row per group in ascending key order
GroupByAgg(rows, lw, keys) ==
    IF keys = {} THEN <<>>
    ELSE LET k == CHOOSE k \in keys : \A m \in keys : k <= m
         IN  <<GroupRow(rows, lw, k)>> \o GroupByAgg(rows, lw, keys \ {k})

\* mutant of FilterMinSamples: `>` for `>=`
FilterMinSamplesStrict(frame, ms) ==
    SelectSeq(frame, LAMBDA row : row.sample_count > ms)

\* line 447
FilterMinSamples(frame, ms) ==
    SelectSeq(frame, LAMBDA row : row.sample_count >= ms)

\* the frame summarize_setups returns
SummarizeSetups(rows, lw, ms) ==
    FilterMinSamples(GroupByAgg(rows, lw, GroupKeys(rows)), ms)

AggIdle ==
    /\ events = <<>>
    /\ lookback_weeks = 0
    /\ min_samples = 0
    /\ agg_pc = "idle"
    /\ grouped = <<>>

AggVarsInit ==
    /\ events = <<>>
    /\ lookback_weeks \in LookbackWeeks
    /\ min_samples \in MinSamples
    /\ agg_pc = "rows"
    /\ grouped = <<>>

\* one more row of the df handed to summarize_setups
AggAddEvent ==
    /\ agg_pc = "rows"
    /\ Len(events) < MaxEvents
    /\ \E e \in EventRows : events' = Append(events, e)
    /\ UNCHANGED <<lookback_weeks, min_samples, agg_pc, grouped>>
    /\ UNCHANGED <<simVars, detVars, labVars, modeVars, appVars, schedVars, parVars>>

\* the call
Summarize ==
    /\ agg_pc = "rows"
    /\ events # <<>>
    /\ grouped' = SummarizeSetups(events, lookback_weeks, min_samples)
    /\ agg_pc' = "done"
    /\ UNCHANGED <<events, lookback_weeks, min_samples>>
    /\ UNCHANGED <<simVars, detVars, labVars, modeVars, appVars, schedVars, parVars>>

(***************************************************************************)
(* strat_app.analyze_historical_ftfc_reversals (one symbol).  Times are in *)
(* days.                                                                   *)
(***************************************************************************)
MaxLookahead == 1

\* strat_app.py line 62 (TIMEFRAME_ORDER of that module)
TIMEFRAME_ORDER_APP ==
    <<"15min", "60min", "Daily", "Weekly", "Monthly", "Quarterly", "Yearly">>

\* line 164: tolerance=pd.Timedelta('30 days')
MergeTolerance == 30

\* lines 154-167: the timeframes of the input, in timeframe order
available_tfs_with_labels(data) ==
    SelectSeq(TIMEFRAME_ORDER_APP, LAMBDA tf : tf \in DOMAIN data)

\* lines 162-165: merge_asof(direction='backward', tolerance=30 days): the
\* label of the last bar at or before t, NaN without one within the tolerance
AlignedLabel(series, t) ==
    LET before == {j \in DOMAIN series : series[j].time <= t}
    IN  IF before = {} THEN "NaN"
        ELSE LET j == CHOOSE j \in before : \A m \in before : m <= j
             IN  IF t - series[j].time > MergeTolerance THEN "NaN"
                 ELSE series[j].label

\* line 173: available_tfs_with_labels[i + 1 : i + 1 + min_higher_tfs]
higher_tfs(avail, pos, m) == SubSeq(avail, pos + 1, Min(pos + m, Len(avail)))

\* lines 176-178: the higher_label_k columns at time t
HigherLabels(data, higher, t) ==
    [k \in DOMAIN higher |-> AlignedLabel(data[higher[k]], t)]

\* line 180: dropna keeps the row
RowKept(sl, hl) == sl # "NaN" /\ \A k \in DOMAIN hl : hl[k] # "NaN"

\* lines 183-186
htf_2u_trend(hl) == \A k \in DOMAIN hl : hl[k] = "2u"
htf_2d_trend(hl) == \A k \in DOMAIN hl : hl[k] = "2d"

\* lines 188-191
IsReversalIndex(sl, hl) ==
    /\ RowKept(sl, hl)
    /\ \/ htf_2u_trend(hl) /\ sl \in {"2d", "1", "3"}
       \/ htf_2d_trend(hl) /\ sl \in {"2u", "1", "3"}

\* lines 204-210: the 3-label window, then the 2-label window
StratPatternFound(series, j) ==
    LET p3 == IF j >= 3
              THEN PatternMatch(<<series[j-2].label, series[j-1].label, series[j].label>>)
              ELSE NoMatch
        p2 == IF j >= 2
              THEN PatternMatch(<<series[j-1].label, series[j].label>>)
              ELSE NoMatch
    IN  IF p3 # NoMatch THEN p3 ELSE IF p2 # NoMatch THEN p2 ELSE "N/A"

\* lines 216-218
PerfData(tf, series, j, hl) ==
    [Timeframe |-> tf, ReversalTime |-> series[j].time,
     TriggerLabel |-> series[j].label,
     Pattern |-> StratPatternFound(series, j),
     HigherTFTrend |-> IF htf_2u_trend(hl) THEN "2u" ELSE "2d",
     EntryPrice |-> series[j].close]

\* lines 169-229: the records of one smaller_tf, in time order
TfReversals(data, args, pos) ==
    LET avail == available_tfs_with_labels(data)
        tf == avail[pos]
        series == data[tf]
        higher == higher_tfs(avail, pos, args.min_higher_tfs)
        rows == [j \in DOMAIN series |-> j]
        hit(j) == /\ IsReversalIndex(AlignedLabel(series, series[j].time),
                                     HigherLabels(data, higher, series[j].time))
                  /\ ~(j + args.lookahead > Len(series))
                  /\ series[j].close # 0
        sel == SelectSeq(rows, hit)
    IN  IF Len(higher) < args.min_higher_tfs THEN <<>>
        ELSE [n \in DOMAIN sel |->
                 PerfData(tf, series, sel[n],
                          HigherLabels(data, higher, series[sel[n]].time))]

RECURSIVE AnalyzeFrom(_, _, _)
\* the records of the timeframes at positions pos.. of the available list
AnalyzeFrom(data, args, pos) ==
    IF pos > Len(available_tfs_with_labels(data)) THEN <<>>
    ELSE TfReversals(data, args, pos) \o AnalyzeFrom(data, args, pos + 1)

\* the frame analyze_historical_ftfc_reversals returns
AnalyzeHistoricalFtfcReversals(data, args) == AnalyzeFrom(data, args, 1)

\* --- inputs -------------------------------------------------------------
AppTriggerTf == "Daily"
AppUpperTfs == {"Weekly", "Monthly", "Quarterly"}

\* the smaller timeframe: 4 bars on days 40..43
AppTriggerSeries ==
    {<<LBar(40, "N/A"), LBar(41, a), LBar(42, b), LBar(43, "2u")>> :
        a \in {"3", "2u", "2d"}, b \in {"1", "2u", "2d"}}

\* a higher timeframe: only a bar after the trigger bars, a bar shortly
\* before them, only a bar more than 30 days before them, or a bar before
\* them followed by one on day 42
AppHigherSeries ==
    {<<LBar(45, "N/A")>>,
     <<LBar(0, "N/A"), LBar(5, "2u")>>,
     <<LBar(0, "N/A"), LBar(35, "2u"), LBar(42, "2d")>>}
    \cup {<<LBar(0, "N/A"), LBar(35, x)>> : x \in {"2u", "2d"}}

AppInputs ==
    UNION { { [tf \in (present \cup {AppTriggerTf}) |->
                 IF tf = AppTriggerTf THEN trig ELSE hi[tf]] :
              trig \in AppTriggerSeries, hi \in [present -> AppHigherSeries] } :
            present \in SUBSET AppUpperTfs }

AppArgs == [min_higher_tfs : {1, 2}, lookahead : 1..MaxLookahead]

AppIdle ==
    /\ symbol_data = <<>>
    /\ app_args = [min_higher_tfs |-> 1, lookahead |-> 1]
    /\ smaller_pos = 0
    /\ app_pc = "idle"
    /\ historical_reversals = <<>>

AppVarsInit ==
    /\ symbol_data \in AppInputs
    /\ app_args \in AppArgs
    /\ smaller_pos = 1
    /\ app_pc = "loop"
    /\ historical_reversals = <<>>

\* one iteration of `for i, smaller_tf in enumerate(...)` (lines 169-229)
AppSmallerTf ==
    /\ app_pc = "loop"
    /\ smaller_pos <= Len(available_tfs_with_labels(symbol_data))
    /\ historical_reversals' =
          historical_reversals \o TfReversals(symbol_data, app_args, smaller_pos)
    /\ smaller_pos' = smaller_pos + 1
    /\ UNCHANGED <<symbol_data, app_args, app_pc>>
    /\ UNCHANGED <<simVars, detVars, labVars, modeVars, aggVars, schedVars, parVars>>

\* line 231
AppReturn ==
    /\ app_pc = "loop"
    /\ smaller_pos > Len(available_tfs_with_labels(symbol_data))
    /\ app_pc' = "done"
    /\ UNCHANGED <<symbol_data, app_args, smaller_pos, historical_reversals>>
    /\ UNCHANGED <<simVars, detVars, labVars, modeVars, aggVars, schedVars, parVars>>

(***************************************************************************)
(* detect_ftfc_reversals over several symbols (lines 45-158): the symbols   *)
(* of a set are walked in an arbitrary order, each with its own symbol_tfs. *)
(***************************************************************************)
\* mutant of symbol_tfs: the series of a timeframe is taken from any symbol
SymbolTfsAnySymbol(data, symbol) ==
    [tf \in {key[2] : key \in DOMAIN data} |->
        data[CHOOSE key \in DOMAIN data :
                /\ key[2] = tf
                /\ \A other \in DOMAIN data :
                      other[2] = tf => key[1] = "AAA" \/ other[1] # "AAA"]]

\* line 52: {key[1]: ohlc_data[key] for key in ohlc_data if key[0] == symbol}
symbol_tfs(data, symbol) ==
    [tf \in {key[2] : key \in {k \in DOMAIN data : k[1] = symbol}} |->
        data[<<symbol, tf>>]]

RECURSIVE DetectUnit(_, _, _, _, _)
\* lines 55-156 for one symbol and one reversal timeframe: the records
\* appended for the rows idx..len(df_reversal)
DetectUnit(symbol, tfs, pos, minimum, idx) ==
    IF TfSkipped(tfs, TIMEFRAME_ORDER[pos]) THEN <<>>
    ELSE IF idx > Len(tfs[TIMEFRAME_ORDER[pos]]) THEN <<>>
    ELSE LET series == tfs[TIMEFRAME_ORDER[pos]]
             bar == series[idx]
             name == PatternMatch(WindowLabels(series, idx))
             dir == IF name = NoMatch THEN NoTrend ELSE ReversalDirection(name)
             conf == Confluence(tfs, pos, bar.time, dir)
             found == IF name # NoMatch /\ dir # NoTrend
                         /\ KeepReversal(conf.aligned, minimum)
                      THEN <<[Symbol |-> symbol]
                             @@ ReversalRecord(TIMEFRAME_ORDER[pos], bar, name,
                                               conf.aligned, conf.trend)>>
                      ELSE <<>>
         IN  found \o DetectUnit(symbol, tfs, pos, minimum, idx + 1)

\* the units of an input: one per (symbol, timeframe) key whose timeframe is
\* in TIMEFRAME_ORDER[:-1]; an absent timeframe is a `continue`
UnitsOf(data) ==
    {u \in {key[1] : key \in DOMAIN data} \X (1..(Len(TIMEFRAME_ORDER) - 1)) :
        <<u[1], TIMEFRAME_ORDER[u[2]]>> \in DOMAIN data}

ParIdle ==
    /\ all_ohlc_data = <<>>
    /\ par_min_higher_tfs = 0
    /\ units_left = {}
    /\ all_reversals = <<>>

\* two symbols, each with a 4hour series and maybe a daily series
ParVarsInit ==
    LET Symbols == {"AAA", "BBB"}
        Trigger == {<<LBar(1, "N/A"), LBar(2, "3"), LBar(3, "1"), LBar(4, c)>> :
                       c \in {"2u", "2d"}}
                   \cup {<<LBar(1, "N/A"), LBar(2, "2d"), LBar(3, "2d"),
                           LBar(4, "2u")>>}
    IN  /\ \E withDaily \in SUBSET Symbols :
           \E trig \in [Symbols -> Trigger] :
           \E hi \in [withDaily -> HigherSeries] :
              all_ohlc_data =
                 [key \in {<<s, "4hour">> : s \in Symbols}
                          \cup {<<s, "daily">> : s \in withDaily} |->
                     IF key[2] = "4hour" THEN trig[key[1]] ELSE hi[key[1]]]
        /\ par_min_higher_tfs \in {0, 1}
        /\ units_left = UnitsOf(all_ohlc_data)
        /\ all_reversals = <<>>

\* one unit is processed and its records are appended
ParUnit ==
    /\ \E u \in units_left :
          /\ units_left' = units_left \ {u}
          /\ all_reversals' =
                all_reversals
                \o DetectUnit(u[1], symbol_tfs(all_ohlc_data, u[1]), u[2],
                              par_min_higher_tfs, 3)
    /\ UNCHANGED <<all_ohlc_data, par_min_higher_tfs>>
    /\ UNCHANGED <<simVars, detVars, labVars, modeVars, aggVars, appVars, schedVars>>

(***************************************************************************)
(* market_scheduler: ScanSchedule.next_scan_times and Scheduler.run_forever *)
(* Times are whole seconds since 00:00 (Eastern) of the day the scheduler   *)
(* is started; the next day starts at DaySeconds.                           *)
(***************************************************************************)
MaxElapsed == 240

DaySeconds == 86400
HourSeconds == 3600
ScanPause == 5
DtTime(h, m) == h * HourSeconds + m * 60

\* is_trading_day, of the day day_offset days after the start day
IsTradingDay(wd, day_offset) == ((wd + day_offset) % 7) \notin {5, 6}

Scan(t, description, timeframes) ==
    [time |-> t, description |-> description, timeframes |-> timeframes]

HourName(hour) ==
    CASE hour = 10 -> "1H Candle Close (10:00)"
      [] hour = 11 -> "1H Candle Close (11:00)"
      [] hour = 12 -> "1H Candle Close (12:00)"
      [] hour = 13 -> "1H Candle Close (13:00)"
      [] hour = 14 -> "1H Candle Close (14:00)"
      [] hour = 15 -> "1H Candle Close (15:00)"
      [] hour = 16 -> "1H Candle Close (16:00)"

\* the scans of one trading day in the order they are appended, before the
\* `> now` tests: pre-market, the seven hourly scans, the two 4H scans
DayScans(wd, day_offset) ==
    LET base == day_offset * DaySeconds
        friday == (wd + day_offset) % 7 = 4
        hourly == [k \in 1..7 |->
                     Scan(base + DtTime(k + 9, 45) - HourSeconds,
                          HourName(k + 9), <<"1hour">>)]
    IN  <<Scan(base + DtTime(8, 45), "Pre-Market Scan", <<"daily", "weekly">>)>>
        \o SelectSeq(hourly, LAMBDA sc :
               /\ DtTime(9, 30) <= sc.time - base
               /\ sc.time - base <= DtTime(16, 0))
        \o <<Scan(base + DtTime(11, 45), "4H/Daily Candle Close (12:00)",
                  <<"4hour">>),
             Scan(base + DtTime(15, 45), "4H/Daily Candle Close (16:00)",
                  IF friday THEN <<"4hour", "daily", "weekly">>
                            ELSE <<"4hour", "daily">>)>>

RECURSIVE InsertScan(_, _)
\* stable insertion by time: sc goes after every scan that is not later
InsertScan(sorted, sc) ==
    IF sorted = <<>> THEN <<sc>>
    ELSE IF sorted[Len(sorted)].time <= sc.time THEN Append(sorted, sc)
    ELSE Append(InsertScan(SubSeq(sorted, 1, Len(sorted) - 1), sc),
                sorted[Len(sorted)])

RECURSIVE SortScans(_, _)
\* scans.sort(key=lambda x: x[0])
SortScans(scans, n) ==
    IF n = 0 THEN <<>> ELSE InsertScan(SortScans(scans, n - 1), scans[n])

\* ScanSchedule.next_scan_times(now): the scans of today and tomorrow that
\* are strictly later than now, in time order
next_scan_times(t, wd) ==
    LET day(o) == IF IsTradingDay(wd, o)
                  THEN SelectSeq(DayScans(wd, o), LAMBDA sc : sc.time > t)
                  ELSE <<>>
        scans == day(0) \o day(1)
    IN  SortScans(scans, Len(scans))

\* the order of the timeframe names as Python strings
TfRank(tf) ==
    CASE tf = "1hour" -> 1 [] tf = "4hour" -> 2
      [] tf = "daily" -> 3 [] tf = "weekly" -> 4

RECURSIVE SortedTfs(_)
\* tuple(sorted(timeframes))
SortedTfs(tfs) ==
    IF tfs = <<>> THEN <<>>
    ELSE LET least == CHOOSE i \in DOMAIN tfs :
                         \A j \in DOMAIN tfs : TfRank(tfs[i]) <= TfRank(tfs[j])
         IN  <<tfs[least]>>
             \o SortedTfs(SubSeq(tfs, 1, least - 1)
                          \o SubSeq(tfs, least + 1, Len(tfs)))

ScanKey(sc) == <<sc.description, SortedTfs(sc.timeframes)>>

\* mutant of ShouldRunScan: only the upper end of the window is tested
ShouldRunScanWindowOnly(sc) ==
    LET time_since_scan == clock - sc.time
    IN  time_since_scan <= check_interval * 2

\* Scheduler.should_run_scan, called at wall time clock
ShouldRunScan(sc) ==
    LET time_since_scan == clock - sc.time
    IN  /\ 0 <= time_since_scan /\ time_since_scan <= check_interval * 2
        /\ ScanKey(sc) \in DOMAIN last_scan_times
              => ~(clock - last_scan_times[ScanKey(sc)] < HourSeconds)

\* the start: a weekday, shortly before the two scans of 11:45
SchedStart == DtTime(11, 44)
StartTimes == {SchedStart + 50, SchedStart + 59}
Weekdays == {0, 4}
CheckIntervals == {5, 60}
\* seconds that pass between reading `now` and the for loop (logging)
Delays == {0, 1}
\* seconds a scanner subprocess takes (at most the 300 s timeout)
RunDurations == {1, 20}

SchedIdle ==
    /\ clock = 0
    /\ weekday = 0
    /\ check_interval = 0
    /\ sched_pc = "idle"
    /\ now = 0
    /\ upcoming_scans = <<>>
    /\ scan_idx = 0
    /\ last_scan_times = <<>>
    /\ scans_run = {}

SchedVarsInit ==
    /\ clock \in StartTimes
    /\ weekday \in Weekdays
    /\ check_interval \in CheckIntervals
    /\ sched_pc = "check"
    /\ now = clock
    /\ upcoming_scans = <<>>
    /\ scan_idx = 0
    /\ last_scan_times = <<>>
    /\ scans_run = {}

\* lines 229-244: the iteration reads the time and the upcoming scans
SchedCheck ==
    /\ sched_pc = "check"
    /\ now' = clock
    /\ upcoming_scans' = next_scan_times(clock, weekday)
    /\ scan_idx' = 1
    /\ sched_pc' = IF upcoming_scans' = <<>> THEN "sleep" ELSE "for"
    /\ \E d \in Delays :
          /\ clock + d <= SchedStart + MaxElapsed
          /\ clock' = clock + d
    /\ UNCHANGED <<weekday, check_interval, last_scan_times, scans_run>>
    /\ UNCHANGED <<simVars, detVars, labVars, modeVars, aggVars, appVars, parVars>>

\* lines 247-256: should_run_scan holds, the scanner runs, the scan is
\* recorded under the iteration's `now`, the loop pauses
SchedRunScan ==
    /\ sched_pc = "for"
    /\ scan_idx <= Len(upcoming_scans)
    /\ ShouldRunScan(upcoming_scans[scan_idx])
    /\ \E dur \in RunDurations :
          /\ clock + dur + ScanPause <= SchedStart + MaxElapsed
          /\ clock' = clock + dur + ScanPause
    /\ scans_run' = scans_run \cup
          {[time |-> upcoming_scans[scan_idx].time,
            description |-> upcoming_scans[scan_idx].description,
            key |-> ScanKey(upcoming_scans[scan_idx]),
            at |-> clock]}
    /\ last_scan_times' =
          (ScanKey(upcoming_scans[scan_idx]) :> now) @@ last_scan_times
    /\ scan_idx' = scan_idx + 1
    /\ UNCHANGED <<weekday, check_interval, sched_pc, now, upcoming_scans>>
    /\ UNCHANGED <<simVars, detVars, labVars, modeVars, aggVars, appVars, parVars>>

\* line 248: should_run_scan is false, the for loop goes on
SchedSkipScan ==
    /\ sched_pc = "for"
    /\ scan_idx <= Len(upcoming_scans)
    /\ ~ShouldRunScan(upcoming_scans[scan_idx])
    /\ scan_idx' = scan_idx + 1
    /\ UNCHANGED <<clock, weekday, check_interval, sched_pc, now,
                   upcoming_scans, last_scan_times, scans_run>>
    /\ UNCHANGED <<simVars, detVars, labVars, modeVars, aggVars, appVars, parVars>>

\* line 259: time.sleep(self.check_interval)
SchedSleep ==
    /\ \/ sched_pc = "sleep"
       \/ sched_pc = "for" /\ scan_idx > Len(upcoming_scans)
    /\ clock + check_interval <= SchedStart + MaxElapsed
    /\ clock' = clock + check_interval
    /\ sched_pc' = "check"
    /\ UNCHANGED <<weekday, check_interval, now, upcoming_scans, scan_idx,
                   last_scan_times, scans_run>>
    /\ UNCHANGED <<simVars, detVars, labVars, modeVars, aggVars, appVars, parVars>>

(***************************************************************************)
(* Specifications                                                          *)
(***************************************************************************)
SimIdle ==
    /\ entry_price = 0
    /\ side_sign = 1
    /\ risk = CHOOSE rk \in RiskModel : TRUE
    /\ ohlc_bars = <<>>
    /\ exits_R = <<>>
    /\ trailing_active = FALSE
    /\ max_price_seen = 0
    /\ trailing_stop = 0
    /\ result = NaN

SimInit == SimVarsInit /\ DetIdle /\ LabIdle /\ ModeIdle /\ AggIdle /\ AppIdle /\ SchedIdle
             /\ ParIdle
SimNext == SimDegenerate \/ SimBar \/ SimEnd
SimSpec == SimInit /\ [][SimNext]_vars

DetInit == SimIdle /\ DetVarsInit /\ LabIdle /\ ModeIdle /\ AggIdle /\ AppIdle /\ SchedIdle
             /\ ParIdle
DetNext == DetSkipTf \/ DetEnterTf \/ DetBar \/ DetTfDone \/ DetReturn
DetSpec == DetInit /\ [][DetNext]_vars

LabInit == SimIdle /\ DetIdle /\ LabVarsInit /\ ModeIdle /\ AggIdle /\ AppIdle /\ SchedIdle
             /\ ParIdle
LabNext == AddStratLabels \/ LabelCandlesticks
LabSpec == LabInit /\ [][LabNext]_vars

ModeInit == ModeVarsInit /\ DetIdle /\ LabIdle /\ AggIdle /\ AppIdle /\ SchedIdle
             /\ ParIdle
ModeNext == ApplyOhlcPath \/ ApplyClosePath
ModeSpec == ModeInit /\ [][ModeNext]_vars

AggInit == SimIdle /\ DetIdle /\ LabIdle /\ ModeIdle /\ AggVarsInit /\ AppIdle /\ SchedIdle
             /\ ParIdle
AggNext == AggAddEvent \/ Summarize
AggSpec == AggInit /\ [][AggNext]_vars

AppInit == SimIdle /\ DetIdle /\ LabIdle /\ ModeIdle /\ AggIdle /\ AppVarsInit /\ SchedIdle
             /\ ParIdle
AppNext == AppSmallerTf \/ AppReturn
AppSpec == AppInit /\ [][AppNext]_vars

SchedInit == SimIdle /\ DetIdle /\ LabIdle /\ ModeIdle /\ AggIdle /\ AppIdle
             /\ SchedVarsInit /\ ParIdle
SchedNext == SchedCheck \/ SchedRunScan \/ SchedSkipScan \/ SchedSleep
SchedSpec == SchedInit /\ [][SchedNext]_vars

ParInit == SimIdle /\ DetIdle /\ LabIdle /\ ModeIdle /\ AggIdle /\ AppIdle
           /\ SchedIdle /\ ParVarsInit
ParNext == ParUnit
ParSpec == ParInit /\ [][ParNext]_vars

(***************************************************************************)
(* Properties of the simulator (SimSpec)                                   *)
(***************************************************************************)
R == r_price(entry_price, risk)
StopLevel == entry_price - side_sign * R
T1Level == entry_price + side_sign * risk.scale_out_R[1] * R
T2Level == entry_price + side_sign * risk.scale_out_R[2] * R
Adverse(bar) == IF side_sign > 0 THEN bar.low ELSE bar.high
Favorable(bar) == IF side_sign > 0 THEN bar.high ELSE bar.low
ReachesStop(bar) == side_sign * (Adverse(bar) - StopLevel) <= 0
ReachesLevel(bar, level) == side_sign * (Favorable(bar) - level) >= 0
LastBar == ohlc_bars[Len(ohlc_bars)]
MeanOfAll(xs) == Mean(SumOpen(xs, Len(xs)), R * risk.contracts)

\* C1: on every forward bar the stop is tested before any target: when the
\* bar's adverse extreme reaches the stop, every contract still open exits
\* at -1R, the contracts that exited on earlier bars keep their R, and the
\* function returns the mean on that bar, whatever the bar's favorable
\* extreme reaches.
C1_StopBeforeTargets ==
    [][ (Len(ohlc_bars') = Len(ohlc_bars) + 1
            /\ ReachesStop(ohlc_bars'[Len(ohlc_bars')]))
        => /\ \A i \in DOMAIN exits_R :
                 exits_R'[i] = IF exits_R[i] = None THEN Some(0 - R)
                                                    ELSE exits_R[i]
           /\ result' = MeanOfAll(exits_R') ]_vars

C1_Witness ==
    /\ result # None
    /\ Len(ohlc_bars) >= 2
    /\ ReachesStop(LastBar)
    /\ ReachesLevel(LastBar, T2Level)
    /\ exits_R[1] = Some(risk.scale_out_R[1] * R)
    /\ \E i \in DOMAIN exits_R : exits_R[i] = Some(0 - R)

\* the scenario of C2: entry 100, long, stop_pct 0.05, scale_out_R (1, 2),
\* trailing_gap_R 1, 3 contracts; bar 1 reaches 106, bar 2 reaches 112,
\* bar 3 falls to 106, and no other level is touched
C2_Scenario ==
    /\ entry_price = 100
    /\ side_sign = 1
    /\ risk = [stop_pct |-> 5, contracts |-> 3, scale_out_R |-> <<1, 2>>,
               trailing_after_R |-> 2, trailing_gap_R |-> 1]
    /\ Len(ohlc_bars) = 3
    /\ ohlc_bars[1].high = 106 /\ ohlc_bars[1].low > 95
    /\ ohlc_bars[2].high = 112 /\ ohlc_bars[2].low > 107
    /\ ohlc_bars[3].low = 106 /\ ohlc_bars[3].high <= 112

\* C2 as stated: in the scenario the contracts exit at +1R, +2R and +1R and
\* mean_R is (1 + 2 + 1) / 3 = 20/15.
C2_Original ==
    C2_Scenario =>
        /\ exits_R = <<Some(5), Some(10), Some(5)>>
        /\ result = Mean(20, 15)

\* C2 (amended): in the scenario the contracts exit at +1R, +2R and, at the
\* trailing stop 107, at (107 - 100) / 5 = +1.4R; mean_R is 22/15 = 1.4667.
C2_TrailingExitAtStopPrice ==
    C2_Scenario =>
        /\ exits_R = <<Some(5), Some(10), Some(7)>>
        /\ trailing_stop = 107
        /\ result = Mean(22, 15)

C2_Witness == C2_Scenario /\ result # None

\* the loop returned on the last bar read (stop-out or trailing exit)
ClosedInLoop ==
    /\ entry_price > 0
    /\ ohlc_bars # <<>>
    /\ RunBars(SimStart(entry_price, side_sign, risk), entry_price, side_sign,
               risk, ohlc_bars, 1).ret # None

\* C3: a first bar whose adverse extreme reaches the stop returns exactly
\* -1R on that bar; once the loop has returned on bar k the result never
\* changes, no further bar is read, and the function gives the same result
\* on the window extended by any further bar.
C3_ClosedAbsorbing ==
    /\ [](  (Len(ohlc_bars) >= 1 /\ ReachesStop(ohlc_bars[1]))
            => /\ IsMean(result)
               /\ result[1] = 0 - result[2]
               /\ Len(ohlc_bars) = 1 )
    /\ [][ result # None => UNCHANGED <<result, exits_R, ohlc_bars>> ]_vars
    /\ [](  ClosedInLoop
            => \A bar \in Bars :
                  SimulateOhlcPath(entry_price, Append(ohlc_bars, bar),
                                   side_sign, risk) = result )

C3_Witness ==
    /\ Len(ohlc_bars) = 1
    /\ ReachesStop(ohlc_bars[1])
    /\ ReachesLevel(ohlc_bars[1], T1Level)
    /\ result = Mean(0 - R * risk.contracts, R * risk.contracts)

\* C4: when the simulator returns a mean, every one of the contract_count
\* contracts has a realized R and the mean is their sum over contract_count.
C4_EveryUnitInMean ==
    IsMean(result) =>
        /\ \A i \in DOMAIN exits_R : exits_R[i] # None
        /\ result = MeanOfAll(exits_R)

\* no bar read so far reaches the stop
NoStopSoFar == \A k \in DOMAIN ohlc_bars : ~ReachesStop(ohlc_bars[k])

BarRead == Len(ohlc_bars') = Len(ohlc_bars) + 1
NewBar == ohlc_bars'[Len(ohlc_bars')]
LastUnit == risk.contracts
T1Value == Some(risk.scale_out_R[1] * R)
T2Value == Some(risk.scale_out_R[2] * R)
TrailingValue(ts) == Some(side_sign * (ts - entry_price))

\* C26: the per-bar evaluation is an else-if chain: a bar that is not a
\* stop-out scales out at most one of the T1 and T2 units, and a bar whose
\* favorable extreme reaches both T1 and T2 while T1 is not yet hit exits
\* only the T1 unit: the T2 unit stays open and trailing stays inactive.
C26_ElseIfChain ==
    [][ (BarRead /\ risk.contracts >= 2 /\ ~ReachesStop(NewBar))
        => /\ ~(exits_R[1] = None /\ exits_R'[1] # None
                  /\ exits_R[2] = None /\ exits_R'[2] # None)
           /\ (exits_R[1] = None /\ ReachesLevel(NewBar, T1Level)
                  /\ ReachesLevel(NewBar, T2Level))
                 => /\ exits_R'[1] = T1Value
                    /\ exits_R'[2] = None
                    /\ ~trailing_active' ]_vars

\* how far the position has come: 0 OPEN, 1 PARTIAL(1), 2 PARTIAL(2) with
\* trailing active, 3 CLOSED
Phase(ex, ta, res) ==
    IF res # None THEN 3
    ELSE IF ta THEN 2
    ELSE IF ex[1] # None THEN 1
    ELSE 0

\* a bar-read step that returns a mean without a stop-out: the trailing exit
TrailingExitStep ==
    BarRead /\ ~ReachesStop(NewBar) /\ result = None /\ IsMean(result')

\* C27: the position only moves forward through OPEN, PARTIAL(1),
\* PARTIAL(2)/TRAILING, CLOSED; while the loop runs the T2 unit has exited
\* only if the T1 unit has (at +R1), trailing is active only if the T2 unit
\* has exited at +R2, and the last unit exits at the trailing stop only on a
\* step after which trailing is active.
C27_StateOrder ==
    /\ [][ Phase(exits_R', trailing_active', result')
              >= Phase(exits_R, trailing_active, result) ]_vars
    /\ []( (risk.contracts >= 2 /\ exits_R[2] # None /\ NoStopSoFar)
              => exits_R[1] # None )
    /\ []( trailing_active
              => /\ risk.contracts >= 2
                 /\ exits_R[2] = T2Value
                 /\ exits_R[1] = T1Value )
    /\ [][ TrailingExitStep
              => /\ trailing_active'
                 /\ exits_R[LastUnit] = None
                 /\ exits_R'[LastUnit] = TrailingValue(trailing_stop') ]_vars

C27_Witness ==
    /\ Len(ohlc_bars) = 3
    /\ NoStopSoFar
    /\ ReachesLevel(ohlc_bars[1], T1Level)
    /\ ~ReachesLevel(ohlc_bars[1], T2Level)
    /\ ReachesLevel(ohlc_bars[2], T2Level)
    /\ trailing_active
    /\ IsMean(result)
    /\ exits_R[1] = T1Value
    /\ exits_R[2] = T2Value
    /\ exits_R[LastUnit] = TrailingValue(trailing_stop)

\* C29: on the bar that activates trailing with the last unit still open,
\* the trailing stop is set from that bar's favorable extreme and compared
\* with that bar's adverse extreme: the last unit exits on the activation
\* bar exactly when the bar's range is at least trailing_gap_R * r.
C29_TrailingOnActivationBar ==
    [][ (BarRead /\ ~trailing_active /\ trailing_active'
            /\ risk.contracts >= 3)
        => LET ts == Favorable(NewBar) - side_sign * risk.trailing_gap_R * R
               range == side_sign * (Favorable(NewBar) - Adverse(NewBar))
           IN  /\ max_price_seen' = Favorable(NewBar)
               /\ trailing_stop' = ts
               /\ IF range >= risk.trailing_gap_R * R
                  THEN /\ exits_R'[LastUnit] = TrailingValue(ts)
                       /\ IsMean(result')
                  ELSE /\ exits_R'[LastUnit] = None
                       /\ result' = None ]_vars

C29_Witness ==
    /\ Len(ohlc_bars) = 1
    /\ ~ReachesStop(ohlc_bars[1])
    /\ risk.contracts >= 3
    /\ trailing_active
    /\ trailing_stop = Favorable(ohlc_bars[1])
                          - side_sign * risk.trailing_gap_R * R
    /\ exits_R[LastUnit] = TrailingValue(trailing_stop)
    /\ IsMean(result)

\* C30: every touch test is inclusive: a bar whose adverse extreme equals
\* the stop stops the position out, a bar whose favorable extreme equals T1
\* (T2) scales the T1 (T2) unit out, and a bar whose adverse extreme equals
\* the trailing stop exits the last unit.
C30_InclusiveTouch ==
    [][ BarRead =>
        /\ Adverse(NewBar) = StopLevel
              => /\ \A i \in DOMAIN exits_R : exits_R'[i] # None
                 /\ result' = MeanOfAll(exits_R')
        /\ (~ReachesStop(NewBar) /\ exits_R[1] = None
               /\ Favorable(NewBar) = T1Level)
              => exits_R'[1] = T1Value
        /\ (~ReachesStop(NewBar) /\ risk.contracts >= 2 /\ exits_R[2] = None
               /\ Favorable(NewBar) = T2Level)
              => exits_R'[2] = T2Value /\ trailing_active'
        /\ (~ReachesStop(NewBar) /\ risk.contracts >= 3 /\ trailing_active'
               /\ Adverse(NewBar) = trailing_stop')
              => /\ exits_R'[LastUnit] = TrailingValue(trailing_stop')
                 /\ IsMean(result') ]_vars

C30_Witness ==
    /\ Len(ohlc_bars) = 3
    /\ Favorable(ohlc_bars[1]) = T1Level
    /\ Favorable(ohlc_bars[2]) = T2Level
    /\ Adverse(ohlc_bars[3]) = trailing_stop
    /\ exits_R[1] = T1Value
    /\ exits_R[2] = T2Value
    /\ exits_R[LastUnit] = TrailingValue(trailing_stop)
    /\ risk.contracts >= 3
    /\ IsMean(result)

\* C34: a contract's realized R is write-once: a contract that has exited
\* keeps its R through every later step (target hits, stop-out, trailing
\* exit, end of window).
C34_WriteOnce ==
    [][ \A i \in DOMAIN exits_R :
           exits_R[i] # None => exits_R'[i] = exits_R[i] ]_vars

C34_Witness ==
    /\ Len(ohlc_bars) = 3
    /\ ~ReachesLevel(ohlc_bars[1], T2Level)
    /\ ReachesStop(ohlc_bars[3])
    /\ risk.contracts >= 3
    /\ exits_R[1] = T1Value
    /\ exits_R[2] = T2Value
    /\ exits_R[LastUnit] = Some(0 - R)
    /\ IsMean(result)

\* C35: the loss per contract is capped at 1R: every realized R is at least
\* -1R, whatever exit it comes from, and so is the returned mean.
C35_LossCapped ==
    /\ \A i \in DOMAIN exits_R :
          exits_R[i] # None => exits_R[i][1] >= 0 - R
    /\ IsMean(result) => result[2] > 0 /\ result[1] >= 0 - result[2]

\* a stop-out on a bar that falls well beyond the stop, after the first
\* target: the open contracts realize -1R, not the bar's extreme or close
C35_Witness ==
    /\ IsMean(result)
    /\ Len(ohlc_bars) = 2
    /\ side_sign * (Adverse(LastBar) - StopLevel) < 0
    /\ side_sign * (LastBar.close - StopLevel) < 0
    /\ exits_R[1] = T1Value
    /\ \E i \in DOMAIN exits_R : exits_R[i] = Some(0 - R)
    /\ result[1] > 0 - result[2]

\* the first bar that reaches T2, and the most favorable extreme of the
\* bars from that bar on
ActivationBar ==
    CHOOSE k \in DOMAIN ohlc_bars :
        /\ ReachesLevel(ohlc_bars[k], T2Level)
        /\ \A j \in 1..(k - 1) : ~ReachesLevel(ohlc_bars[j], T2Level)
FavorableSinceActivation ==
    CHOOSE p \in {Favorable(ohlc_bars[k]) : k \in ActivationBar..Len(ohlc_bars)} :
        \A k \in ActivationBar..Len(ohlc_bars) :
            side_sign * (p - Favorable(ohlc_bars[k])) >= 0

Reflect(E, bars) ==
    [k \in DOMAIN bars |-> [low   |-> 2 * E - bars[k].high,
                            high  |-> 2 * E - bars[k].low,
                            close |-> 2 * E - bars[k].close]]

\* C37: a trade's result on a window is the result of the opposite side on
\* the window reflected about the entry price (high' = 2E - low,
\* low' = 2E - high, close' = 2E - close), for every risk model.
C37_MirrorImage ==
    result # None
        => result = SimulateOhlcPath(entry_price, Reflect(entry_price, ohlc_bars),
                                     0 - side_sign, risk)

\* a short that scaled out twice and left on its trailing stop, with the
\* long on the reflected window giving the same mean
C37_Witness ==
    /\ side_sign = -1
    /\ Len(ohlc_bars) >= 2
    /\ risk.contracts >= 3
    /\ exits_R[1] = T1Value
    /\ exits_R[2] = T2Value
    /\ exits_R[LastUnit] = TrailingValue(trailing_stop)
    /\ IsMean(result)
    /\ \E k \in DOMAIN ohlc_bars : ohlc_bars[k].high # ohlc_bars[k].low
    /\ result = SimulateOhlcPath(entry_price, Reflect(entry_price, ohlc_bars), 1, risk)

\* two results are the same R-multiple (or the same non-numeric outcome)
SameR(a, b) ==
    IF IsMean(a) /\ IsMean(b) THEN a[1] * b[2] = b[1] * a[2] ELSE a = b

\* C12: on a non-empty forward window whose bars all have high = low = close, the
\* close-only simulator and the OHLC simulator return the same mean R.
C12_CloseEqualsOhlc ==
    (fwd_bars # <<>> /\ expectancy_ohlc # None /\ expectancy_close # None)
        => SameR(expectancy_ohlc, expectancy_close)

\* C13: in both modes a degenerate input (entry price <= 0 or an empty
\* forward window) gives NaN: never a number, never an exception.
C13_DegenerateIsNaN ==
    (entry_price <= 0 \/ fwd_bars = <<>>)
        => /\ expectancy_ohlc \in {None, NaN}
           /\ expectancy_close \in {None, NaN}

\* C21: classification never mutates the series it is given: after the
\* classifier returns, the caller's frame has the columns and the values
\* it had before the call.
C21_InputNotMutated ==
    /\ [](df_columns = OhlcColumns)
    /\ [][df' = df]_vars

(***************************************************************************)
(* Properties of the aggregator (AggSpec)                                  *)
(***************************************************************************)
\* comparison of two fractions with positive denominators
FracGt(a, b) == a[1] * b[2] > b[1] * a[2]
FracEq(a, b) == a[1] * b[2] = b[1] * a[2]

\* row a may stand before row b in the ranking
RankedBefore(a, b) ==
    \/ FracGt(a.expectancy_R, b.expectancy_R)
    \/ /\ FracEq(a.expectancy_R, b.expectancy_R)
       /\ \/ FracGt(a.win_rate, b.win_rate)
          \/ /\ FracEq(a.win_rate, b.win_rate)
             /\ a.sample_count >= b.sample_count

\* C15: the rows returned are in descending order of expectancy_R, ties
\* broken by descending win_rate, then by descending sample_count.
C15_RankedOutput ==
    agg_pc = "done" =>
        \A i, j \in DOMAIN grouped :
            i < j => RankedBefore(grouped[i], grouped[j])

\* the results of one group, in row order
GroupResults(g) ==
    LET rs == SelectSeq(events, LAMBDA e : e.key = g)
    IN  [i \in DOMAIN rs |-> rs[i].Expectancy_R]

AllDefined(rs) == \A i \in DOMAIN rs : IsMean(rs[i])

RECURSIVE Total(_, _)
\* the sum of the numeric results rs[1..n]
Total(rs, n) ==
    IF n = 0 THEN 0
    ELSE (IF IsMean(rs[n]) THEN rs[n][1] ELSE 0) + Total(rs, n - 1)

\* the number of results that are numbers > 0
Wins(rs) == Cardinality({i \in DOMAIN rs : IF IsMean(rs[i]) THEN rs[i][1] > 0 ELSE FALSE})

\* C16: for a group whose results are all defined, sample_count is the
\* number of results, win_rate the number of results > 0 over sample_count
\* and expectancy_R their arithmetic mean; results [1, -1, 2] give
\* sample_count 3, win_rate 2/3 and expectancy_R 2/3.
C16_GroupStatistics ==
    agg_pc = "done" =>
        \A n \in DOMAIN grouped :
            LET row == grouped[n]
                rs == GroupResults(row.key)
            IN  /\ AllDefined(rs) =>
                      /\ row.sample_count = Len(rs)
                      /\ FracEq(row.win_rate, <<Wins(rs), row.sample_count>>)
                      /\ FracEq(row.expectancy_R, <<Total(rs, Len(rs)), Len(rs)>>)
                /\ rs = <<Mean(1, 1), Mean(0 - 1, 1), Mean(2, 1)>> =>
                      /\ row.sample_count = 3
                      /\ FracEq(row.win_rate, <<2, 3>>)
                      /\ FracEq(row.expectancy_R, <<2, 3>>)

C16_Witness ==
    /\ agg_pc = "done"
    /\ \E n \in DOMAIN grouped :
          /\ GroupResults(grouped[n].key) = <<Mean(1, 1), Mean(0 - 1, 1), Mean(2, 1)>>
          /\ grouped[n].sample_count = 3

\* C17: NaN results are left out of a group's statistics: sample_count is
\* the number of numeric results, expectancy_R their mean, and win_rate the
\* number of results > 0 over the numeric ones, so that
\* win_rate * sample_count is the number of results > 0.
C17_NaNExcluded ==
    agg_pc = "done" =>
        \A n \in DOMAIN grouped :
            LET row == grouped[n]
                rs == GroupResults(row.key)
                defined == SelectSeq(rs, IsMean)
            IN  /\ row.sample_count = Len(defined)
                /\ FracEq(row.expectancy_R, <<Total(defined, Len(defined)), Len(defined)>>)
                /\ row.win_rate[1] * row.sample_count = Wins(rs) * row.win_rate[2]

\* C18: the output holds exactly the groups whose sample_count is at least
\* min_samples: no row below the minimum, no group meeting it missing.
C18_MinSamplesFilter ==
    agg_pc = "done" =>
        /\ \A n \in DOMAIN grouped : grouped[n].sample_count >= min_samples
        /\ {grouped[n].key : n \in DOMAIN grouped}
              = {g \in Groups :
                    Len(SelectSeq(GroupResults(g), IsMean)) >= min_samples}
        /\ \A i, j \in DOMAIN grouped : grouped[i].key = grouped[j].key => i = j

C18_Witness ==
    /\ agg_pc = "done"
    /\ Len(grouped) = 1
    /\ grouped[1].sample_count = min_samples
    /\ \E i \in DOMAIN events :
          events[i].key # grouped[1].key /\ IsMean(events[i].Expectancy_R)

\* the events of a group inside the window [latest - lookback_weeks, latest]
InWindow(g) ==
    {i \in DOMAIN events :
        /\ events[i].key = g
        /\ \A m \in DOMAIN events :
              events[i].ReversalTime >= events[m].ReversalTime - lookback_weeks}

\* C19: frequency_per_week of every output group is the number of its events
\* inside the trailing lookback window over the window length in weeks; it
\* is 0 for a group with no event inside the window.
C19_FrequencyPerWeek ==
    agg_pc = "done" =>
        \A n \in DOMAIN grouped :
            /\ IsMean(grouped[n].frequency_per_week)
            /\ FracEq(grouped[n].frequency_per_week,
                      <<Cardinality(InWindow(grouped[n].key)), lookback_weeks>>)

(***************************************************************************)
(* Properties of the detector (DetSpec)                                    *)
(***************************************************************************)
\* the last component of the key a pattern name is listed under
TrailingComponent(name) ==
    LET k == CHOOSE k \in DOMAIN REVERSAL_PATTERNS : REVERSAL_PATTERNS[k].name = name
    IN  REVERSAL_PATTERNS[k].key[Len(REVERSAL_PATTERNS[k].key)]

\* a trigger bar of the current timeframe has been processed
BarProcessed == det_pc = "bars" /\ bar_idx > 3

\* C5: the reversal direction of a matched pattern is the trailing
\* component of its name (..2u gives 2u, ..2d gives 2d).
C5_DirectionFromSuffix ==
    (BarProcessed /\ pattern_match # NoMatch)
        => reversal_direction = TrailingComponent(pattern_match)

ThreeBarMatch(lbls) ==
    \E k \in DOMAIN REVERSAL_PATTERNS : REVERSAL_PATTERNS[k].key = lbls

\* C6: when the 3-label window matches no 3-bar shape, the 2-label window
\* is tried: a window ending in (2u, 2d) gives 2u-2d with direction 2d and
\* one ending in (2d, 2u) gives 2d-2u with direction 2u.
C6_TwoBarFallback ==
    (BarProcessed /\ ~ThreeBarMatch(labels))
        => /\ (<<labels[2], labels[3]>> = <<"2u", "2d">>
                 => pattern_match = "2u-2d" /\ reversal_direction = "2d")
           /\ (<<labels[2], labels[3]>> = <<"2d", "2u">>
                 => pattern_match = "2d-2u" /\ reversal_direction = "2u")

\* C7: the row selected on a higher timeframe never has a timestamp after
\* the trigger bar's time.
C7_NoLookAhead ==
    \A tf \in DOMAIN higher_bar :
        higher_bar[tf] # 0 => ohlc_data[tf][higher_bar[tf]].time <= reversal_time

C7_Witness ==
    /\ BarProcessed
    /\ reversals # <<>>
    /\ \E tf \in DOMAIN higher_bar :
          /\ higher_bar[tf] # 0
          /\ higher_bar[tf] < Len(ohlc_data[tf])
          /\ ohlc_data[tf][higher_bar[tf] + 1].time > reversal_time
          /\ ohlc_data[tf][higher_bar[tf] + 1].label # ohlc_data[tf][higher_bar[tf]].label

\* C31: the row selected on a higher timeframe for trigger time T has the
\* greatest timestamp <= T of its series: it is not after T and no bar of
\* the series lies after it and at or before T.
C31_GreatestAtOrBefore ==
    \A tf \in DOMAIN higher_bar :
        higher_bar[tf] # 0 =>
            LET selected == ohlc_data[tf][higher_bar[tf]].time
            IN  /\ selected <= reversal_time
                /\ \A j \in DOMAIN ohlc_data[tf] :
                      ~(/\ selected < ohlc_data[tf][j].time
                        /\ ohlc_data[tf][j].time <= reversal_time)

C31_Witness ==
    /\ BarProcessed
    /\ \E tf \in DOMAIN higher_bar :
          /\ higher_bar[tf] = 2
          /\ Len(ohlc_data[tf]) = 3
          /\ ohlc_data[tf][1].time < ohlc_data[tf][2].time
          /\ ohlc_data[tf][2].time < reversal_time
          /\ ohlc_data[tf][3].time > reversal_time

\* the label in effect on a timeframe at time T: that of its bar with the
\* greatest timestamp <= T, N/A when it has none
AlignedLabelAt(tf, T) ==
    IF tf \notin DOMAIN ohlc_data THEN "N/A"
    ELSE LET s == ohlc_data[tf]
             known == {j \in DOMAIN s : s[j].time <= T}
         IN  IF known = {} THEN "N/A"
             ELSE s[CHOOSE j \in known : \A m \in known : s[m].time <= s[j].time].label

\* C8: the confluence count is the number of timeframes strictly above the
\* trigger timeframe whose aligned label is exactly the reversal direction.
C8_ConfluenceCount ==
    (BarProcessed /\ pattern_match # NoMatch)
        => higher_tfs_aligned =
             Cardinality({k \in DOMAIN TIMEFRAME_ORDER :
                            /\ k > tf_pos
                            /\ AlignedLabelAt(TIMEFRAME_ORDER[k], reversal_time)
                                 = reversal_direction})

C8_Witness ==
    /\ BarProcessed
    /\ pattern_match # NoMatch
    /\ higher_tfs_aligned = 1
    /\ \E k \in DOMAIN TIMEFRAME_ORDER :
          k < tf_pos /\ AlignedLabelAt(TIMEFRAME_ORDER[k], reversal_time) = reversal_direction
    /\ \E k \in DOMAIN TIMEFRAME_ORDER :
          k > tf_pos /\ AlignedLabelAt(TIMEFRAME_ORDER[k], reversal_time) = "1"
    /\ \E k \in DOMAIN TIMEFRAME_ORDER :
          k > tf_pos /\ AlignedLabelAt(TIMEFRAME_ORDER[k], reversal_time) = "N/A"

\* C9: a matched trigger bar appends a record exactly when its confluence
\* count is >= min_higher_tfs; every record has FTFCCount >= min_higher_tfs.
C9_EmitIffThreshold ==
    /\ [][ (bar_idx' = bar_idx + 1 /\ pattern_match' # NoMatch)
           => IF higher_tfs_aligned' >= min_higher_tfs
              THEN /\ Len(reversals') = Len(reversals) + 1
                   /\ reversals'[Len(reversals')].FTFCCount = higher_tfs_aligned'
                   /\ reversals'[Len(reversals')].ReversalTime = reversal_time'
              ELSE reversals' = reversals ]_vars
    /\ [](\A n \in DOMAIN reversals : reversals[n].FTFCCount >= min_higher_tfs)

C9_Witness ==
    /\ min_higher_tfs = MIN_HIGHER_TFS_FOR_FTFC
    /\ reversals # <<>>
    /\ reversals[Len(reversals)].FTFCCount = min_higher_tfs

\* the table entries whose key is the given label window
TableEntries(window) ==
    {k \in DOMAIN REVERSAL_PATTERNS : REVERSAL_PATTERNS[k].key = window}

\* C20: a trigger bar whose 3-label window is a key of the pattern table is
\* matched to exactly that key's name ((3, 1, 2u) gives 3-1-2u with
\* direction 2u); a bar appends at most one record, which carries the
\* matched name; a bar whose 3-label and 2-label windows are no key of the
\* table matches nothing and appends nothing.
C20_ThreeBarTable ==
    [][ bar_idx' = bar_idx + 1
        => /\ \A k \in TableEntries(labels') :
                 pattern_match' = REVERSAL_PATTERNS[k].name
           /\ labels' = <<"3", "1", "2u">>
                 => pattern_match' = "3-1-2u" /\ reversal_direction' = "2u"
           /\ \/ reversals' = reversals
              \/ /\ Len(reversals') = Len(reversals) + 1
                 /\ SubSeq(reversals', 1, Len(reversals)) = reversals
                 /\ reversals'[Len(reversals')].Pattern = pattern_match'
                 /\ pattern_match' # NoMatch
           /\ (TableEntries(labels') = {}
                 /\ TableEntries(<<labels'[2], labels'[3]>>) = {})
                 => pattern_match' = NoMatch /\ reversals' = reversals ]_vars

C20_Witness ==
    /\ BarProcessed
    /\ labels = <<"3", "1", "2u">>
    /\ pattern_match = "3-1-2u"
    /\ reversal_direction = "2u"
    /\ reversals # <<>>
    /\ reversals[Len(reversals)].Pattern = "3-1-2u"
    /\ reversals[Len(reversals)].ReversalTime = reversal_time

\* the input with one more higher-timeframe series
WithSeries(tf, series) == (tf :> series) @@ ohlc_data

\* the higher timeframes the input has no series for
MissingUpperTfs == UpperTfs \ DOMAIN ohlc_data

\* the confluence count of the current trigger bar on another input
AlignedOn(data) ==
    Confluence(data, tf_pos, reversal_time, reversal_direction).aligned

\* detect_ftfc_reversals: for a matched trigger bar, adding one more
\* higher-timeframe series to the input never lowers the bar's confluence
\* count, and a bar that is emitted without the series is emitted with it
EngineConfluenceMonotone ==
    (BarProcessed /\ pattern_match # NoMatch) =>
        \A tf \in MissingUpperTfs : \A series \in HigherSeries :
            /\ AlignedOn(WithSeries(tf, series)) >= higher_tfs_aligned
            /\ KeepReversal(higher_tfs_aligned, min_higher_tfs)
                  => KeepReversal(AlignedOn(WithSeries(tf, series)), min_higher_tfs)

\* C23: every record emitted carries a higher_tf_trend of 2u or 2d, equal
\* to the direction of its pattern, whatever the threshold and the set of
\* higher timeframes.
C23_TrendIsDirection ==
    \A n \in DOMAIN reversals :
        /\ reversals[n].HigherTFTrend \in {"2u", "2d"}
        /\ reversals[n].HigherTFTrend = ReversalDirection(reversals[n].Pattern)

\* detect_ftfc_reversals: a higher timeframe on which no row was selected
\* (no bar at or before the trigger time) leaves the count what it is
\* without that timeframe
EngineMissingBarSkipped ==
    (BarProcessed /\ pattern_match # NoMatch) =>
        \A tf \in DOMAIN higher_bar :
            higher_bar[tf] = 0
               => AlignedOn([x \in DOMAIN ohlc_data \ {tf} |-> ohlc_data[x]])
                     = higher_tfs_aligned

(***************************************************************************)
(* Properties of detection over several symbols (ParSpec)                  *)
(***************************************************************************)
\* the input that holds the series of one symbol only
OnlySymbol(s) ==
    [key \in {k \in DOMAIN all_ohlc_data : k[1] = s} |-> all_ohlc_data[key]]

\* the records detection gives for a symbol when it is given that symbol's
\* series alone
AloneEvents(s) ==
    UNION {{DetectUnit(s, symbol_tfs(OnlySymbol(s), s), pos,
                       par_min_higher_tfs, 3)[n] :
               n \in DOMAIN DetectUnit(s, symbol_tfs(OnlySymbol(s), s), pos,
                                       par_min_higher_tfs, 3)} :
           pos \in 1..(Len(TIMEFRAME_ORDER) - 1)}

\* C33: whatever the order in which the units were processed, the output
\* holds, once each, exactly the records that each symbol gives on its own
\* series alone; the rows of one symbol are those of that symbol's series.
C33_OrderIndependent ==
    units_left = {} =>
        /\ {all_reversals[n] : n \in DOMAIN all_reversals}
              = UNION {AloneEvents(key[1]) : key \in DOMAIN all_ohlc_data}
        /\ \A m \in DOMAIN all_reversals : \A n \in DOMAIN all_reversals :
              all_reversals[m] = all_reversals[n] => m = n

\* both symbols gave records, the symbols have different series, and the
\* second symbol's rows come first
C33_Witness ==
    /\ units_left = {}
    /\ all_ohlc_data # <<>>
    /\ all_ohlc_data[<<"AAA", "4hour">>] # all_ohlc_data[<<"BBB", "4hour">>]
    /\ Len(all_reversals) >= 2
    /\ all_reversals[1].Symbol = "BBB"
    /\ all_reversals[Len(all_reversals)].Symbol = "AAA"

(***************************************************************************)
(* Properties of the historical analyzer (AppSpec)                         *)
(***************************************************************************)
\* the (timeframe, time) pairs of a frame of records
EventKeys(frame) ==
    {<<frame[n].Timeframe, frame[n].ReversalTime>> : n \in DOMAIN frame}

\* the input with one more higher-timeframe series
WithAppSeries(tf, series) == (tf :> series) @@ symbol_data

\* C22: re-running the detection after adding one more higher-timeframe
\* series keeps every event of the trigger timeframe that was emitted
\* before the addition.
C22_EmittedStaysEmitted ==
    app_pc = "done" =>
        \A tf \in AppUpperTfs \ DOMAIN symbol_data : \A series \in AppHigherSeries :
            \A key \in EventKeys(historical_reversals) :
                key[1] = AppTriggerTf
                   => key \in EventKeys(AnalyzeHistoricalFtfcReversals(
                                           WithAppSeries(tf, series), app_args))

\* the higher timeframes of the input with no bar at or before time t
NoBarUpTo(t) ==
    {tf \in DOMAIN symbol_data \ {AppTriggerTf} :
        \A j \in DOMAIN symbol_data[tf] : symbol_data[tf][j].time > t}

\* the input without the given timeframes
WithoutTfs(tfs) == [tf \in DOMAIN symbol_data \ tfs |-> symbol_data[tf]]

\* C24: a higher timeframe with no bar at or before the trigger time T does
\* not abort the event: a trigger bar that is emitted when the remaining
\* higher timeframes alone are evaluated is emitted.
C24_MissingBarDoesNotAbort ==
    app_pc = "done" =>
        \A j \in DOMAIN symbol_data[AppTriggerTf] :
            LET key == <<AppTriggerTf, symbol_data[AppTriggerTf][j].time>>
            IN  key \in EventKeys(AnalyzeHistoricalFtfcReversals(
                                     WithoutTfs(NoBarUpTo(key[2])), app_args))
                   => key \in EventKeys(historical_reversals)

(***************************************************************************)
(* Properties of the scheduler (SchedSpec)                                 *)
(***************************************************************************)
\* the scans that next_scan_times produces in the first iteration
ScheduledAtStart == next_scan_times(SchedStart, weekday)

\* the scan was handed to run_scan no later than 2 * check_interval after
\* its scan time
ActedOn(sc) ==
    \E run \in scans_run :
        /\ run.time = sc.time
        /\ run.description = sc.description
        /\ run.at <= sc.time + 2 * check_interval

\* C28: while run_forever runs, a scan time that next_scan_times produced
\* and that has passed by more than 2 * check_interval seconds has been
\* acted on: the scanner was triggered for it within that time.
C28_ScanActedOnInTime ==
    sched_pc # "idle" =>
        \A k \in DOMAIN ScheduledAtStart :
            LET sc == ScheduledAtStart[k]
            IN  clock > sc.time + 2 * check_interval => ActedOn(sc)

\* C32: the scanner is never triggered twice for one scan window: a
\* scheduled scan time has at most one trigger, and two triggers with the
\* same (description, sorted timeframes) key are at least 3600 s apart.
C32_NoDuplicateScan ==
    \A r1 \in scans_run : \A r2 \in scans_run :
        /\ (r1.time = r2.time /\ r1.description = r2.description) => r1 = r2
        /\ (r1.key = r2.key /\ r1 # r2)
              => (r1.at - r2.at >= HourSeconds \/ r2.at - r1.at >= HourSeconds)

\* a scan has run and a later iteration walks the list while the scan's
\* window of 2 * check_interval is still open
C32_Witness ==
    /\ sched_pc = "for"
    /\ \E run \in scans_run :
          /\ now > run.at
          /\ clock <= run.time + 2 * check_interval

(***************************************************************************)
(* Properties of the classifier (LabSpec)                                  *)
(***************************************************************************)
\* how many of the four conditions hold for bar c after bar p
ConditionsHolding(c, p) ==
    Cardinality({n \in 1..4 :
        \/ n = 1 /\ c.high > p.high /\ c.low < p.low
        \/ n = 2 /\ c.high <= p.high /\ c.low >= p.low
        \/ n = 3 /\ c.high > p.high /\ c.low >= p.low
        \/ n = 4 /\ c.high <= p.high /\ c.low < p.low})

OtherClassifier(d) ==
    IF label.by = "_add_strat_labels" THEN CandlestickLabels(d) ELSE StratLabels(d)

====
